---- MODULE Spec2Model ----
(***************************************************************************)
(* A model of src/rdb_protocol/btree.cc: the point operations on the       *)
(* primary tree (rdb_set, rdb_delete, the compare-and-replace of           *)
(* rdb_replace_and_return_superblock) and the batched replace              *)
(* (rdb_batched_replace with its coroutines and on_mod_report).            *)
(*                                                                         *)
(* A datum is a record [type, pk, body]: type is the datum's type, pk the  *)
(* value of its primary-key field (NoPk when the field is missing) and     *)
(* body stands for the rest of the document.  A raw value slot is the      *)
(* sequence of bytes the leaf holds for a key; the empty sequence is a     *)
(* key without a value (kv_location.value.has() is false).                 *)
(***************************************************************************)
EXTENDS Integers, Sequences, FiniteSets, TLC

VARIABLES
    store,       \* the primary tree: btree key -> raw value slot
    prev_store,  \* the primary tree before the last point operation
    call,        \* the last point operation and its arguments
    out_info,    \* the rdb_modification_info_t the last operation filled in
    out_result,  \* response->result of the last rdb_set or rdb_delete
    out_resp,    \* the response the last replace returned
    crashed,     \* a guarantee failed: the process is gone
    keys,        \* rdb_batched_replace: the keys, in submission order
    coord,       \* rdb_batched_replace: where it stands, and its loop index i
    superblock,  \* who holds the superblock of the batch
    pc,          \* where each do_a_replace_from_batched_replace coroutine stands
    fn,          \* what the replacer did at each position
    old_value,   \* the slot each coroutine found at its key
    res,         \* the result of each position's replace
    mod_report,  \* the modification info of each position's mod_report
    stats,       \* *stats_out, the aggregate result
    merge_order, \* the positions, in the order their results were merged
    fifo_exited, \* batched_replaces_fifo_sink: write tokens that have exited
    sindex_lock, \* the coroutine holding the sindex queue mutex, 0 if none
    sindex_queue,\* the reports pushed onto the sindex queue
    applied,     \* the positions whose on_mod_report has returned
    sindex,      \* the tree of each secondary index
    mapping,     \* the index function in each index's opaque_definition
    post_constructed, \* the indexes that are post-constructed
    updating,    \* the caller of the running rdb_update_sindexes, or "none"
    report,      \* the rdb_modification_report_t rdb_update_sindexes works on
    update,      \* where each rdb_update_single_sindex coroutine stands
    update_log,  \* the key visits of each of them for this report, with the
                 \* entry each visit found
    cleared,     \* the blobs rdb_update_sindexes has cleared for this report
    snapshot,    \* post-construction: the snapshot the traversal reads
    pcons,       \* post-construction: where the traversal stands
    erase,       \* rdb_erase_range: its arguments and where it stands
    sindex_erase,\* where each sindex_erase_range coroutine stands
    scan,        \* rdb_rget_slice: its arguments and where the traversal stands
    handle,      \* where the handle_pair coroutine of each key stands
    response,    \* rget_read_response_t *response
    batcher,     \* callback.batcher
    batches,     \* the responses the scans of one read have returned so far
    distribution \* rdb_distribution_get: what the tree reports and the response

point_vars == <<prev_store, call, out_info, out_result, out_resp>>

batch_vars ==
    <<keys, coord, superblock, pc, fn, old_value, res, mod_report, stats,
      merge_order, fifo_exited, sindex_lock, sindex_queue, applied>>

\* rdb_batched_replace without the sindex queue.
replace_vars ==
    <<keys, coord, superblock, pc, fn, old_value, res, mod_report, stats,
      merge_order, fifo_exited, applied>>

sindex_vars ==
    <<sindex, mapping, post_constructed, updating, report, update, update_log,
      cleared>>

erase_vars == <<erase, sindex_erase>>

scan_vars == <<scan, handle, response, batcher, batches>>

\* What the secondary index maintenance and post-construction leave alone.
rest_vars == <<erase_vars, scan_vars, distribution>>

\* What a range scan leaves alone, but for a failed guarantee.
scan_rest_vars ==
    <<store, point_vars, batch_vars, sindex_vars, snapshot, pcons, erase_vars,
      distribution>>

noscan_vars == <<scan_rest_vars, crashed>>

ext_vars == <<sindex_vars, snapshot, pcons, rest_vars>>

vars == <<store, crashed, point_vars, batch_vars, ext_vars>>

\* Number of distinct primary-key values of the table.
NumKeys == 2

\* Number of keys of one batched replace (keys.size()).
BatchLen == 2

PkValues == 1..NumKeys

\* The rest of a document besides its primary key: two distinct contents.
Bodies == {"a", "b"}

\* The pk of an object that has no primary-key field: a value that is no
\* primary-key value.
NoPk == NumKeys + 1

\* An empty counted_t<const datum_t> (the pointer holds nothing).
NoDatum == [type |-> "NONE", pk |-> NoPk, body |-> "-"]

\* datum_t(R_NULL)
NullDatum == [type |-> "R_NULL", pk |-> NoPk, body |-> "-"]

\* A datum that is neither null nor an object (a number).
NumDatum == [type |-> "R_NUM", pk |-> NoPk, body |-> "-"]

\* An object whose primary-key field holds p (NoPk: no such field).
Obj(p, b) == [type |-> "R_OBJECT", pk |-> p, body |-> b]

Objects == {Obj(p, b) : p \in PkValues \cup {NoPk}, b \in Bodies}

\* store_key_t(pk->print_primary()): the btree key of a primary-key value.
PrintPrimary(p) == <<"P", p>>

StoreKeys == {PrintPrimary(p) : p \in PkValues}

\* The documents a table can hold at key: objects whose primary key prints
\* to that key.
DocsOf(key) == {d \in Objects : d.pk # NoPk /\ PrintPrimary(d.pk) = key}

\* A key without a value.
NoValue == <<>>

\* serialize_onto_blob followed by the copy of value_ref: the raw bytes of
\* the slot that holds datum d.
Encode(d) == <<d.type, d.pk, d.body>>

\* get_data: the datum a raw slot decodes to.
get_data(slot) == [type |-> slot[1], pk |-> slot[2], body |-> slot[3]]

\* std::pair<counted_t<const datum_t>, std::vector<char> >
NoSide == [first |-> NoDatum, second |-> NoValue]

\* A default constructed rdb_modification_info_t.
EmptyModInfo == [deleted |-> NoSide, added |-> NoSide]

\* The counters of a batched_replace_response_t, with its first error
\* message ("" when it has none).
EmptyResp ==
    [skipped |-> 0, inserted |-> 0, deleted |-> 0, replaced |-> 0,
     unchanged |-> 0, errors |-> 0, first_error |-> ""]

StatusNames == {"skipped", "inserted", "deleted", "replaced", "unchanged"}

\* resp.add(name, 1.0): the new response and whether the key was there already.
RespAdd(resp, name) ==
    [resp |-> IF resp[name] = 0 THEN [resp EXCEPT ![name] = 1] ELSE resp,
     conflict |-> resp[name] # 0]

\* resp.add_error(msg)
add_error(resp, msg) ==
    [resp EXCEPT !.errors = @ + 1,
                 !.first_error = IF @ = "" THEN msg ELSE @]

\* What replacer->replace(old_val) does: it returns a datum, throws a
\* ql::base_exc_t, or throws interrupted_exc_t.
Returns(d) == [kind |-> "return", val |-> d]
ThrowsEval == [kind |-> "throw", val |-> NoDatum]
ThrowsInterrupted == [kind |-> "interrupted", val |-> NoDatum]
NoFn == [kind |-> "none", val |-> NoDatum]

FnResults ==
    {Returns(d) : d \in Objects \cup {NullDatum, NumDatum}}
        \cup {ThrowsEval, ThrowsInterrupted}

(***************************************************************************)
(* kv_location_delete with a modification info: the slot loses its value   *)
(* and the bytes it held are recorded as deleted.second.  crash is a       *)
(* failed guarantee.                                                       *)
(***************************************************************************)
kv_location_delete_KeepsValue(value, mod_info_out) ==
    [value |-> value,
     mod_info |-> [mod_info_out EXCEPT !.deleted.second = value],
     crash |-> value = NoValue \/ mod_info_out.deleted.second # NoValue]

kv_location_delete(value, mod_info_out) ==
    [value |-> NoValue,
     mod_info |-> [mod_info_out EXCEPT !.deleted.second = value],
     crash |-> value = NoValue \/ mod_info_out.deleted.second # NoValue]

(***************************************************************************)
(* kv_location_set of a datum: the slot takes the encoding of data, which  *)
(* is recorded as added.second; the bytes of a value it replaces are       *)
(* recorded as deleted.second.                                             *)
(***************************************************************************)
kv_location_set_KeepsValue(value, data, mod_info_out) ==
    LET new_value == Encode(data)
        had == value # NoValue
    IN  [value |-> value,
         mod_info |->
            [added |-> [mod_info_out.added EXCEPT !.second = new_value],
             deleted |-> IF had
                         THEN [mod_info_out.deleted EXCEPT !.second = value]
                         ELSE mod_info_out.deleted],
         crash |-> mod_info_out.added.second # NoValue
                   \/ (had /\ mod_info_out.deleted.second # NoValue)]

kv_location_set_NoDeleted(value, data, mod_info_out) ==
    LET new_value == Encode(data)
    IN  [value |-> new_value,
         mod_info |->
            [added |-> [mod_info_out.added EXCEPT !.second = new_value],
             deleted |-> mod_info_out.deleted],
         crash |-> mod_info_out.added.second # NoValue]

kv_location_set(value, data, mod_info_out) ==
    LET new_value == Encode(data)
        had == value # NoValue
    IN  [value |-> new_value,
         mod_info |->
            [added |-> [mod_info_out.added EXCEPT !.second = new_value],
             deleted |-> IF had
                         THEN [mod_info_out.deleted EXCEPT !.second = value]
                         ELSE mod_info_out.deleted],
         crash |-> mod_info_out.added.second # NoValue
                   \/ (had /\ mod_info_out.deleted.second # NoValue)]

\* datum_t::rcheck_valid_replace(old_val, counted_t(), primary_key): the
\* message it throws, "" when it passes.
rcheck_valid_replace(new_val, old_val) ==
    IF new_val.pk = NoPk
    THEN "Inserted object must have primary key"
    ELSE IF old_val.type = "R_OBJECT" /\ old_val.pk # new_val.pk
         THEN "Primary key cannot be changed"
         ELSE ""

(***************************************************************************)
(* The checks of rdb_replace_and_return_superblock on the datum the        *)
(* replacer returned: the message of the exception thrown, "" when the     *)
(* datum is accepted.                                                      *)
(***************************************************************************)
check_new_val_AcceptsAll(key, old_val, new_val) == ""

check_new_val(key, old_val, new_val) ==
    IF new_val.type = "R_NULL"
    THEN ""
    ELSE IF new_val.type = "R_OBJECT"
         THEN IF rcheck_valid_replace(new_val, old_val) # ""
              THEN rcheck_valid_replace(new_val, old_val)
              ELSE IF key # PrintPrimary(new_val.pk)
                   THEN "Primary key cannot be changed"
                   ELSE ""
         ELSE "Inserted value must be an OBJECT"

(***************************************************************************)
(* The operation rdb_replace_and_return_superblock does, from              *)
(* started_empty, ended_empty and the comparison of the two documents.     *)
(***************************************************************************)
replace_status_NoCompare(started_empty, ended_empty, old_val, new_val) ==
    IF started_empty
    THEN IF ended_empty THEN "skipped" ELSE "inserted"
    ELSE IF ended_empty THEN "deleted" ELSE "replaced"

replace_status(started_empty, ended_empty, old_val, new_val) ==
    IF started_empty
    THEN IF ended_empty THEN "skipped" ELSE "inserted"
    ELSE IF ended_empty
         THEN "deleted"
         ELSE IF old_val = new_val THEN "unchanged" ELSE "replaced"

\* The outcome of a replace that threw msg before or at its checks: the
\* catch clauses add the error, nothing was written.
ReplaceFailed_Rethrows(value, mod_info_out, msg) ==
    [resp |-> EmptyResp, mod_info |-> mod_info_out, value |-> value,
     crash |-> TRUE]

ReplaceFailed(value, mod_info_out, msg) ==
    [resp |-> add_error(EmptyResp, msg), mod_info |-> mod_info_out,
     value |-> value, crash |-> FALSE]

\* The branch of rdb_replace_and_return_superblock that follows the checks
\* of new_val (the code from "bool conflict = true" on).
ReplaceApply(value, old_val, new_val, mod_info_out) ==
    LET started_empty == value = NoValue
        ended_empty == new_val.type = "R_NULL"
        status == replace_status(started_empty, ended_empty, old_val, new_val)
        added == RespAdd(EmptyResp, status)
        set == kv_location_set(value, new_val, mod_info_out)
        del == kv_location_delete(value, mod_info_out)
    IN  CASE ~started_empty /\ ~ended_empty /\ old_val.pk # new_val.pk ->
                \* r_sanity_check on the two primary keys throws
                ReplaceFailed(value, mod_info_out, "Sanity check failed")
          [] status \in {"skipped", "unchanged"} ->
                [resp |-> added.resp, mod_info |-> mod_info_out,
                 value |-> value, crash |-> added.conflict]
          [] status \in {"inserted", "replaced"} /\ new_val.pk = NoPk ->
                \* r_sanity_check after the counter was added
                [resp |-> add_error(added.resp, "Sanity check failed"),
                 mod_info |-> mod_info_out, value |-> value, crash |-> FALSE]
          [] status = "inserted" ->
                [resp |-> added.resp,
                 mod_info |-> [set.mod_info EXCEPT !.added.first = new_val],
                 value |-> set.value,
                 crash |-> set.crash \/ added.conflict
                           \/ set.mod_info.deleted.second # NoValue
                           \/ set.mod_info.added.second = NoValue]
          [] status = "deleted" ->
                [resp |-> added.resp,
                 mod_info |-> [del.mod_info EXCEPT !.deleted.first = old_val],
                 value |-> del.value,
                 crash |-> del.crash \/ added.conflict
                           \/ del.mod_info.deleted.second = NoValue
                           \/ del.mod_info.added.second # NoValue]
          [] status = "replaced" ->
                [resp |-> added.resp,
                 mod_info |-> [set.mod_info EXCEPT !.added.first = new_val,
                                                   !.deleted.first = old_val],
                 value |-> set.value,
                 crash |-> set.crash \/ added.conflict
                           \/ set.mod_info.deleted.second = NoValue
                           \/ set.mod_info.added.second = NoValue]

(***************************************************************************)
(* rdb_replace_and_return_superblock on the slot of key, given what the    *)
(* replacer does (r) and the caller's modification info: the response, the *)
(* modification info, the slot afterwards, and whether a guarantee failed. *)
(* should_return_vals() is taken to be false.                              *)
(***************************************************************************)
rdb_replace_and_return_superblock(key, value, r, mod_info_out) ==
    LET started_empty == value = NoValue
        old_val == IF started_empty THEN NullDatum ELSE get_data(value)
    IN  IF ~started_empty /\ old_val.pk = NoPk
        THEN [resp |-> EmptyResp, mod_info |-> mod_info_out,
              value |-> value, crash |-> TRUE]
        ELSE IF r.kind = "throw"
        THEN ReplaceFailed(value, mod_info_out, "evaluation error")
        ELSE IF r.kind = "interrupted"
        THEN ReplaceFailed(value, mod_info_out, "interrupted")
        ELSE IF check_new_val(key, old_val, r.val) # ""
        THEN ReplaceFailed(value, mod_info_out,
                           check_new_val(key, old_val, r.val))
        ELSE ReplaceApply(value, old_val, r.val, mod_info_out)

\* overwrite || !had_value
set_writes_Always(overwrite, had_value) == TRUE

set_writes(overwrite, had_value) == overwrite \/ ~had_value

(***************************************************************************)
(* rdb_set: the slot afterwards, the modification info, the result, and    *)
(* whether a guarantee failed.                                             *)
(***************************************************************************)
rdb_set(value, data, overwrite, mod_info) ==
    LET had_value == value # NoValue
        m1 == IF had_value
              THEN [mod_info EXCEPT !.deleted.first = get_data(value)]
              ELSE mod_info
        m2 == [m1 EXCEPT !.added.first = data]
        set == kv_location_set(value, data, m2)
        result == IF had_value THEN "DUPLICATE" ELSE "STORED"
    IN  IF set_writes(overwrite, had_value)
        THEN [value |-> set.value, mod_info |-> set.mod_info,
              result |-> result,
              crash |-> set.crash
                        \/ (set.mod_info.deleted.second = NoValue) # ~had_value
                        \/ set.mod_info.added.second = NoValue]
        ELSE [value |-> value, mod_info |-> m2, result |-> result,
              crash |-> FALSE]

(***************************************************************************)
(* rdb_delete: the guarantee after the if is evaluated whether or not the  *)
(* key existed; when it fails the response is never assigned.              *)
(***************************************************************************)
rdb_delete(value, mod_info) ==
    LET exists == value # NoValue
        m1 == [mod_info EXCEPT !.deleted.first = get_data(value)]
        del == kv_location_delete(value, m1)
        after == IF exists
                 THEN del
                 ELSE [value |-> value, mod_info |-> mod_info, crash |-> FALSE]
        ok == after.mod_info.deleted.second # NoValue
              /\ after.mod_info.added.second = NoValue
    IN  [value |-> after.value, mod_info |-> after.mod_info,
         result |-> IF after.crash \/ ~ok
                    THEN "NONE"
                    ELSE IF exists THEN "DELETED" ELSE "MISSING",
         crash |-> after.crash \/ ~ok]

(***************************************************************************)
(* Secondary indexes.  An index descriptor holds an index function and the *)
(* multi flag; the index function maps a document to a string, to an array *)
(* of strings, or fails.  The table has two indexes, "s1" (not multi) and  *)
(* "s2" (multi).                                                           *)
(***************************************************************************)
Sindexes == {"s1", "s2"}

\* sindex_multi_bool_t of the index
multi(x) == x = "s2"

\* What mapping->compile_wire_func()->call(env, doc)->as_datum() gives: a
\* string, an array of strings, or an exception.
IndexStr(v) == [type |-> "R_STR", elems |-> <<v>>]
IndexArray(vs) == [type |-> "R_ARRAY", elems |-> vs]
IndexThrows == [type |-> "THROWS", elems |-> <<>>]

IndexStrings == {"x", "y"}

IndexArrays == {<<>>, <<"x", "y">>, <<"y", "y">>}

IndexValues ==
    {IndexStr(v) : v \in IndexStrings} \cup {IndexArray(vs) : vs \in IndexArrays}

\* The index functions: the body itself ("a" to x, "b" to y), a constant,
\* one that fails on "b", and two array valued ones.
ByBody == [a |-> IndexStr("x"), b |-> IndexStr("y")]
SameForAll == [a |-> IndexStr("x"), b |-> IndexStr("x")]
FailsOnB == [a |-> IndexStr("x"), b |-> IndexThrows]
ArrayOfTwo == [a |-> IndexArray(<<"x", "y">>), b |-> IndexArray(<<"y", "y">>)]
ArrayOrNone == [a |-> IndexArray(<<>>), b |-> IndexArray(<<"x", "y">>)]

Mappings == {ByBody, SameForAll, FailsOnB, ArrayOfTwo, ArrayOrNone}

\* An array element print_secondary fails on (a datum no index key can be
\* made of), and an index function that yields it in second place.
NotIndexable == "null"

ArrayWithNull ==
    [a |-> IndexArray(<<"x", "y">>), b |-> IndexArray(<<"x", NotIndexable>>)]

\* print_secondary makes a key of the value: none of its elements is one it
\* fails on.
printable(index) == \A i \in 1..Len(index.elems) : index.elems[i] # NotIndexable

\* The tag of an index key: none, or the position in the array.
NoTag == <<>>
Tag(i) == <<i>>

Tags == {NoTag} \cup {Tag(i) : i \in 0..1}

\* datum_t::print_secondary(primary_key[, tag]): the indexed value, then
\* the primary key, then the tag.
print_secondary(value, primary_key, tag) == <<"S", value, primary_key, tag>>

\* ql::datum_t::extract_primary: the primary key an index key embeds.
extract_primary(key) == key[3]

\* Every key an index can hold.
SindexKeys ==
    {print_secondary(v, k, t) : v \in IndexValues, k \in StoreKeys, t \in Tags}

(***************************************************************************)
(* compute_keys: the index keys of doc under an index function.  A multi   *)
(* index gets one key per element of an array, tagged with its position;   *)
(* any other result gives one untagged key.  An exception of the function  *)
(* leaves the function before any key is used.                             *)
(***************************************************************************)
compute_keys_SameTag(primary_key, doc, map, is_multi) ==
    LET index == map[doc.body]
    IN  IF index = IndexThrows \/ ~printable(index)
        THEN [threw |-> TRUE, keys |-> <<>>]
        ELSE IF is_multi /\ index.type = "R_ARRAY"
        THEN [threw |-> FALSE,
              keys |-> [i \in 1..Len(index.elems) |->
                          print_secondary(IndexStr(index.elems[i]),
                                          primary_key, Tag(0))]]
        ELSE [threw |-> FALSE,
              keys |-> <<print_secondary(index, primary_key, NoTag)>>]

compute_keys_KeepsPushed(primary_key, doc, map, is_multi) ==
    LET index == map[doc.body]
    IN  IF index = IndexThrows
        THEN [threw |-> TRUE, keys |-> <<>>]
        ELSE IF is_multi /\ index.type = "R_ARRAY"
        THEN [threw |-> FALSE,
              keys |-> [i \in 1..Cardinality({j \in 1..Len(index.elems) :
                                \A l \in 1..j : index.elems[l] # NotIndexable})
                          |-> print_secondary(IndexStr(index.elems[i]),
                                          primary_key, Tag(i - 1))]]
        ELSE [threw |-> ~printable(index),
              keys |-> IF printable(index)
                       THEN <<print_secondary(index, primary_key, NoTag)>>
                       ELSE <<>>]

compute_keys(primary_key, doc, map, is_multi) ==
    LET index == map[doc.body]
    IN  IF index = IndexThrows \/ ~printable(index)
        THEN [threw |-> TRUE, keys |-> <<>>]
        ELSE IF is_multi /\ index.type = "R_ARRAY"
        THEN [threw |-> FALSE,
              keys |-> [i \in 1..Len(index.elems) |->
                          print_secondary(IndexStr(index.elems[i]),
                                          primary_key, Tag(i - 1))]]
        ELSE [threw |-> FALSE,
              keys |-> <<print_secondary(index, primary_key, NoTag)>>]

\* The report a default constructed rdb_modification_report_t holds.
NoReport == [primary_key |-> <<>>, info |-> EmptyModInfo]

\* The key visits of rdb_update_single_sindex for one report, in the order
\* of the code: for each key of the deleted document the entry is located
\* and deleted if present, then for each key of the added document the
\* entry is set to the raw bytes added.second.  A failing index function
\* drops its side.
delete_ops(x, map, modification) ==
    IF modification.info.deleted.first = NoDatum
    THEN <<>>
    ELSE LET c == compute_keys(modification.primary_key,
                               modification.info.deleted.first, map, multi(x))
         IN  [i \in 1..Len(c.keys) |-> [op |-> "delete", key |-> c.keys[i]]]

set_ops(x, map, modification) ==
    IF modification.info.added.first = NoDatum
    THEN <<>>
    ELSE LET c == compute_keys(modification.primary_key,
                               modification.info.added.first, map, multi(x))
         IN  [i \in 1..Len(c.keys) |-> [op |-> "set", key |-> c.keys[i]]]

rdb_update_single_sindex_SetsFirst(x, map, modification) ==
    set_ops(x, map, modification) \o delete_ops(x, map, modification)

rdb_update_single_sindex(x, map, modification) ==
    delete_ops(x, map, modification) \o set_ops(x, map, modification)

\* No rdb_update_single_sindex coroutine exists for the index.
NoUpdate == [pc |-> "idle", todo |-> <<>>]

\* An index tree without entries.
EmptyTree == [key \in SindexKeys |-> NoValue]

\* The index of a table under an index function: every key of every stored
\* document holds the raw bytes of the document.
IndexOf(table, x, map) ==
    [key \in SindexKeys |->
        LET k == extract_primary(key)
        IN  IF table[k] = NoValue
            THEN NoValue
            ELSE LET c == compute_keys(k, get_data(table[k]), map, multi(x))
                 IN  IF \E i \in 1..Len(c.keys) : c.keys[i] = key
                     THEN table[k]
                     ELSE NoValue]

(***************************************************************************)
(* Key ranges.  Keys are ordered by their position: the store key of       *)
(* primary-key value p has position p, position 0 is the smallest key of   *)
(* all (the empty key), which no document has.  Index keys are ordered by  *)
(* the indexed value, then the primary key, then the tag, and have the     *)
(* positions that follow from that order.                                  *)
(***************************************************************************)
\* The values of index keys in their order.
ValueOrder ==
    <<IndexArray(<<>>), IndexArray(<<"x", "y">>), IndexArray(<<"y", "y">>),
      IndexStr("x"), IndexStr("y")>>

sindex_position(key) ==
    LET v == CHOOSE i \in 1..Len(ValueOrder) : ValueOrder[i] = key[2]
        t == IF key[4] = NoTag THEN 0 ELSE key[4][1] + 1
    IN  ((v - 1) * NumKeys + (key[3][2] - 1)) * Cardinality(Tags) + t + 1

position(key) == IF key[1] = "P" THEN key[2] ELSE sindex_position(key)

\* key_range_t: left is inclusive, right is exclusive or unbounded.
KeyRange(l, u, r) == [left |-> l, unbounded |-> u, right |-> r]

KeyRanges ==
    {KeyRange(l, FALSE, r) : l \in 0..NumKeys, r \in 1..(NumKeys + 1)}
        \cup {KeyRange(l, TRUE, l) : l \in 0..NumKeys}

\* key_range_t::is_empty
is_empty(range) == ~range.unbounded /\ range.left >= range.right

\* key_range_t::contains_key
contains_key(range, key) ==
    /\ range.left <= position(key)
    /\ range.unbounded \/ position(key) < range.right

\* store_key_t::decrement: the key before p, and whether there is one.
decrement(p) == [key |-> IF p > 0 THEN p - 1 ELSE p, ok |-> p > 0]

\* The key testers a caller of rdb_erase_range passes: the keys it accepts
\* are all keys, or all keys but one.
Testers == {StoreKeys} \cup {StoreKeys \ {k} : k \in StoreKeys}

\* sindex_key_range_tester_t::key_should_be_erased: the primary key the
\* index key embeds lies in the range.
key_should_be_erased_ByAnyKey(range, key) == TRUE

key_should_be_erased(range, key) ==
    contains_key(range, extract_primary(key))

\* btree_erase_range_generic on an index tree with the range tester and no
\* bounds: the keys it erases.
sindex_erase_keys(tree, range) ==
    {key \in SindexKeys :
        tree[key] # NoValue /\ key_should_be_erased(range, key)}

\* btree_erase_range_generic on the primary tree: the keys it erases are
\* those above left_exclusive, up to right_inclusive, that the tester
\* accepts.
primary_erase_keys(table, tester, left, right) ==
    {k \in StoreKeys :
        /\ table[k] # NoValue
        /\ k \in tester
        /\ left.supplied => position(k) > left.key
        /\ right.supplied => position(k) <= right.key}

(***************************************************************************)
(* Range scans (rdb_rget_slice).  The traversal visits the keys of the     *)
(* range that hold a value in the order of the sorting and starts one      *)
(* handle_pair coroutine per key; the coroutines load their values side by *)
(* side and then pass a first-in-first-out gate one at a time, in the      *)
(* order of the traversal, to process their rows.                          *)
(***************************************************************************)

\* sorting_t and reversed(sorting).
Sortings == {"ASCENDING", "DESCENDING"}

reversed(sorting) == sorting = "DESCENDING"

\* store_key_t::max(): a key that is not below any key.
MaxKey == Len(ValueOrder) * NumKeys * Cardinality(Tags) + 1

\* The row-count budgets of a batchspec: below, at and above the number of
\* keys.
Budgets == 1..NumKeys

\* batchspec_t::to_batcher with a row-count budget.
to_batcher(budget) == [els_left |-> budget]

\* batcher_t::note_el: one more row in the batch.
note_el(b) == [b EXCEPT !.els_left = @ - 1]

\* batcher_t::should_send_batch: the budget is used up.
should_send_batch(b) == b.els_left <= 0

\* The stages of a transform: a filter that keeps the documents of body
\* "a", a concat_map that yields two rows for every datum, and a map that
\* fails on the documents of body "b".
transform_apply(stage, d) ==
    CASE stage = "filter" ->
            [threw |-> FALSE, out |-> IF d.body = "a" THEN <<d>> ELSE <<>>]
      [] stage = "concat_map" ->
            [threw |-> FALSE, out |-> <<d, [d EXCEPT !.body = "a"]>>]
      [] stage = "map" ->
            [threw |-> d.body = "b", out |-> <<d>>]

Transforms ==
    {<<>>, <<"filter">>, <<"concat_map">>, <<"map">>,
     <<"concat_map", "filter">>}

\* One stage of the transform applied to every datum of data: tmp, or the
\* datum_exc_t of the first datum that fails.
RECURSIVE apply_stage(_, _)
apply_stage(stage, data) ==
    IF data = <<>>
    THEN [threw |-> FALSE, out |-> <<>>]
    ELSE LET head == transform_apply(stage, Head(data))
             rest == apply_stage(stage, Tail(data))
         IN  [threw |-> head.threw \/ rest.threw,
              out |-> head.out \o rest.out]

\* The loop over the stages of the transform: the data it leaves, or the
\* failure of a stage.
RECURSIVE apply_transforms(_, _)
apply_transforms(transform, data) ==
    IF transform = <<>>
    THEN [threw |-> FALSE, out |-> data]
    ELSE LET tmp == apply_stage(Head(transform), data)
         IN  IF tmp.threw
             THEN [threw |-> TRUE, out |-> <<>>]
             ELSE apply_transforms(Tail(transform), tmp.out)

\* The terminals: none, a count, a reduction that fails on the documents of
\* body "b", and one whose initialisation fails.
NoTerminal == "none"

Terminals == {NoTerminal, "count", "reduce", "bad_init"}

\* rget_read_response_t::result: a stream of rows, the accumulator of a
\* terminal, or an error.
Stream(rows) == [kind |-> "stream", rows |-> rows, acc |-> 0]

Accumulator(n) == [kind |-> "terminal", rows |-> <<>>, acc |-> n]

Exception(what) == [kind |-> what, rows |-> <<>>, acc |-> 0]

\* rget_item_t(store_key, datum)
rget_item(store_key, datum) == [key |-> store_key, data |-> datum]

\* rget_item_t(store_key, sindex_value, datum)
rget_sindex_item(store_key, sindex_value, datum) ==
    [key |-> store_key, sindex_key |-> sindex_value, data |-> datum]

\* The arguments only a secondary-index scan has: the index, its function
\* and whether it is multi, the range of index values asked for (the set of
\* the values it contains) and the range of the primary keys of the shard.
NoSindex ==
    [id |-> "none", function |-> ByBody, multi |-> FALSE, range |-> {},
     primary_key_range |-> KeyRange(0, TRUE, 0)]

\* No counted_t<const ql::datum_t> sindex_value.
NoSindexValue == [type |-> "NONE", elems |-> <<>>]

\* query_language::terminal_apply on one datum.
terminal_apply(terminal, d, result) ==
    IF terminal = "reduce" /\ d.body = "b"
    THEN [threw |-> TRUE, result |-> result]
    ELSE [threw |-> FALSE, result |-> Accumulator(result.acc + 1)]

\* The keys of the range that hold a value, in the order of the traversal.
RECURSIVE Ascending(_, _, _)
Ascending(table, range, p) ==
    IF p > NumKeys
    THEN <<>>
    ELSE (IF table[PrintPrimary(p)] # NoValue
               /\ contains_key(range, PrintPrimary(p))
          THEN <<PrintPrimary(p)>>
          ELSE <<>>) \o Ascending(table, range, p + 1)

Reverse(s) == [i \in 1..Len(s) |-> s[Len(s) + 1 - i]]

\* The same for an index tree.
RECURSIVE SindexAscending(_)
SindexAscending(todo) ==
    IF todo = {}
    THEN <<>>
    ELSE LET first == CHOOSE k \in todo :
                          \A j \in todo : position(k) <= position(j)
         IN  <<first>> \o SindexAscending(todo \ {first})

InOrder(table, range) ==
    IF DOMAIN table = StoreKeys
    THEN Ascending(table, range, 1)
    ELSE SindexAscending({k \in DOMAIN table :
                             table[k] # NoValue /\ contains_key(range, k)})

traversal_order(table, range, direction) ==
    IF direction = "FORWARD"
    THEN InOrder(table, range)
    ELSE Reverse(InOrder(table, range))

\* rdb_rget_depth_first_traversal_callback_t::init: where the scan has
\* got to before it has seen a key, and the result the terminal starts from.
init_last_considered_key(range, sorting) ==
    IF ~reversed(sorting)
    THEN range.left
    ELSE IF ~range.unbounded THEN range.right ELSE MaxKey

init_result(terminal) ==
    IF terminal = NoTerminal
    THEN Stream(<<>>)
    ELSE IF terminal = "bad_init"
         THEN Exception("terminal_exception")
         ELSE Accumulator(0)

\* Lines 760-763: the key the scan has got to once store_key has passed the
\* gate.
advance_Never(last_considered_key, store_key, sorting) == last_considered_key

advance(last_considered_key, store_key, sorting) ==
    IF \/ last_considered_key < position(store_key) /\ ~reversed(sorting)
       \/ last_considered_key > position(store_key) /\ reversed(sorting)
    THEN position(store_key)
    ELSE last_considered_key

\* The loop that appends the rows of one key to the stream and notes each
\* of them in the batcher.
RECURSIVE push_back(_, _, _, _, _)
push_back(stream, b, store_key, sindex_value, data) ==
    IF data = <<>>
    THEN [stream |-> stream, batcher |-> b]
    ELSE push_back(Append(stream,
                       IF sindex_value # NoSindexValue
                       THEN rget_sindex_item(store_key, sindex_value,
                                             Head(data))
                       ELSE rget_item(store_key, Head(data))),
                   note_el(b), store_key, sindex_value, Tail(data))

\* The loop that feeds the data of one key to the terminal.
RECURSIVE apply_terminal(_, _, _)
apply_terminal(terminal, data, result) ==
    IF data = <<>>
    THEN [threw |-> FALSE, result |-> result]
    ELSE LET r == terminal_apply(terminal, Head(data), result)
         IN  IF r.threw
             THEN r
             ELSE apply_terminal(terminal, Tail(data), r.result)

\* Line 828: whether the traversal goes on after the rows of a key.
go_on_Always(b) == TRUE

go_on(b) == ~should_send_batch(b)

\* Lines 719-725: a secondary-index scan drops the keys whose primary key
\* is outside the primary key range, before anything else.
outside_primary_key_range_Never(args, store_key) == FALSE

outside_primary_key_range(args, store_key) ==
    /\ args.sindex # NoSindex
    /\ ~contains_key(args.sindex.primary_key_range, extract_primary(store_key))

\* Lines 768-786: the value of the index function on the document, the
\* element of the tag of the key for a multi index and an array; whether
\* the function threw, and whether a guarantee failed.
sindex_value_of(args, store_key, doc) ==
    LET v == args.sindex.function[doc.body]
        array == args.sindex.multi /\ v.type = "R_ARRAY"
        tagged == store_key[4] # NoTag
    IN  IF args.sindex = NoSindex
        THEN [threw |-> FALSE, crash |-> FALSE, value |-> NoSindexValue]
        ELSE IF v = IndexThrows
        THEN [threw |-> TRUE, crash |-> FALSE, value |-> NoSindexValue]
        ELSE IF ~array
        THEN [threw |-> FALSE, crash |-> FALSE, value |-> v]
        ELSE IF ~tagged \/ Len(v.elems) <= store_key[4][1]
        THEN [threw |-> FALSE, crash |-> TRUE, value |-> NoSindexValue]
        ELSE [threw |-> FALSE, crash |-> FALSE,
              value |-> IndexStr(v.elems[store_key[4][1] + 1])]

\* What handle_pair returns after an evaluation error (lines 807, 840 and
\* 846): false, the traversal is to stop.
go_on_after_error_Yes == TRUE

go_on_after_error == FALSE

\* handle_pair from the gate on (lines 760-846): the response and the
\* batcher it leaves, the value it returns, and whether a guarantee
\* failed.
handle_pair(resp, b, args, store_key, value) ==
    LET last == advance(resp.last_considered_key, store_key, args.sorting)
        at == [resp EXCEPT !.last_considered_key = last]
        sv == sindex_value_of(args, store_key, get_data(value))
        data == apply_transforms(args.transform, <<get_data(value)>>)
    IN  IF sv.crash
        THEN [response |-> at, batcher |-> b, continue |-> FALSE,
              crash |-> TRUE]
        ELSE IF sv.threw
        THEN [response |-> [at EXCEPT !.result = Exception("exc")],
              batcher |-> b, continue |-> go_on_after_error,
              crash |-> FALSE]
        ELSE IF args.sindex # NoSindex /\ sv.value \notin args.sindex.range
        THEN [response |-> at, batcher |-> b, continue |-> TRUE,
              crash |-> FALSE]
        ELSE IF data.threw
        THEN [response |-> [at EXCEPT !.result =
                                Exception("transform_exception")],
              batcher |-> b, continue |-> go_on_after_error,
              crash |-> FALSE]
        ELSE IF args.terminal = NoTerminal
        THEN LET pushed == push_back(resp.result.rows, b, store_key,
                                     sv.value, data.out)
             IN  [response |-> [at EXCEPT !.result = Stream(pushed.stream)],
                  batcher |-> pushed.batcher,
                  continue |-> go_on(pushed.batcher), crash |-> FALSE]
        ELSE LET r == apply_terminal(args.terminal, data.out, resp.result)
             IN  IF r.threw
                 THEN [response |-> [at EXCEPT !.result =
                                        Exception("terminal_exception")],
                       batcher |-> b, continue |-> go_on_after_error,
                       crash |-> FALSE]
                 ELSE [response |-> [at EXCEPT !.result = r.result],
                       batcher |-> b, continue |-> TRUE, crash |-> FALSE]

\* The arguments of a scan.
ScanArgs ==
    [sorting : Sortings, transform : Transforms, terminal : Terminals,
     budget : Budgets, sindex : {NoSindex}]

\* rdb_rget_slice up to the start of the traversal: the callback is
\* constructed and no key has been visited.
start_scan(table, range, args, first) ==
    [pc |-> "traversing", range |-> range, first_range |-> first,
     args |-> args,
     order |-> traversal_order(table, range,
                   IF ~reversed(args.sorting) THEN "FORWARD" ELSE "BACKWARD"),
     next |-> 1, failure_cond |-> FALSE,
     bad_init |-> args.terminal = "bad_init"]

start_response(range, args) ==
    [last_considered_key |-> init_last_considered_key(range, args.sorting),
     result |-> init_result(args.terminal),
     truncated |-> FALSE]

\* No scan is running.
ScanIdle ==
    /\ scan = [pc |-> "idle", range |-> KeyRange(0, TRUE, 0),
               first_range |-> KeyRange(0, TRUE, 0),
               args |-> CHOOSE a \in ScanArgs : TRUE,
               order |-> <<>>, next |-> 1, failure_cond |-> FALSE,
               bad_init |-> FALSE]
    /\ handle = [k \in StoreKeys |-> "none"]
    /\ response = [last_considered_key |-> 0, result |-> Stream(<<>>),
                   truncated |-> FALSE]
    /\ batcher = to_batcher(1)
    /\ batches = <<>>

\* rdb_distribution_get is not running.
DistributionIdle ==
    distribution = [pc |-> "idle", key_count_out |-> 0, key_splits |-> {},
                    left_key |-> 0, key_counts |-> <<>>]

\* No sindex_erase_range coroutine exists for the index.
NoErase == [pc |-> "idle", todo |-> {}, interrupted |-> FALSE]

\* rdb_erase_range is not running.
EraseIdle ==
    /\ erase = [pc |-> "idle", key_range |-> KeyRange(0, TRUE, 0),
                tester |-> StoreKeys, interruptor |-> FALSE, todo |-> {}]
    /\ sindex_erase = [x \in Sindexes |-> NoErase]

\* No rdb_update_sindexes is running.
SindexIdle ==
    /\ updating = "none"
    /\ report = NoReport
    /\ update = [x \in Sindexes |-> NoUpdate]
    /\ update_log = [x \in Sindexes |-> <<>>]
    /\ cleared = <<>>

\* No post-construction is running.
PostConstructIdle ==
    /\ snapshot = [k \in StoreKeys |-> NoValue]
    /\ pcons = [pc |-> "idle", todo |-> <<>>]

\* A table without secondary index entries, nothing running on them.
ExtIdle ==
    /\ sindex = [x \in Sindexes |-> EmptyTree]
    /\ mapping = [x \in Sindexes |-> CHOOSE f \in Mappings : TRUE]
    /\ post_constructed = {}
    /\ SindexIdle
    /\ PostConstructIdle
    /\ EraseIdle
    /\ ScanIdle
    /\ DistributionIdle

NoCall ==
    [op |-> "none", key |-> PrintPrimary(NoPk), data |-> NoDatum,
     overwrite |-> FALSE, fn |-> NoFn]

Positions == 1..BatchLen

\* No batched replace is running.
BatchIdle ==
    /\ keys = [i \in Positions |-> PrintPrimary(1)]
    /\ coord = [pc |-> "idle", i |-> 0]
    /\ superblock = [holder |-> "caller", task |-> 0]
    /\ pc = [i \in Positions |-> "unspawned"]
    /\ fn = [i \in Positions |-> NoFn]
    /\ old_value = [i \in Positions |-> NoValue]
    /\ res = [i \in Positions |-> EmptyResp]
    /\ mod_report = [i \in Positions |-> EmptyModInfo]
    /\ stats = EmptyResp
    /\ merge_order = <<>>
    /\ fifo_exited = 0
    /\ sindex_lock = 0
    /\ sindex_queue = <<>>
    /\ applied = <<>>

\* An empty table, nothing called yet.
PointInit ==
    /\ BatchIdle
    /\ ExtIdle
    /\ store = [k \in StoreKeys |-> NoValue]
    /\ prev_store = [k \in StoreKeys |-> NoValue]
    /\ call = NoCall
    /\ out_info = EmptyModInfo
    /\ out_result = "NONE"
    /\ out_resp = EmptyResp
    /\ crashed = FALSE

\* One call of rdb_set, with a document of the table for key and a
\* default constructed modification info.
CallRdbSet ==
    \E key \in StoreKeys, overwrite \in BOOLEAN :
      \E data \in DocsOf(key) :
        LET out == rdb_set(store[key], data, overwrite, EmptyModInfo)
        IN  /\ ~crashed
            /\ call' = [NoCall EXCEPT !.op = "rdb_set", !.key = key,
                                      !.data = data, !.overwrite = overwrite]
            /\ prev_store' = store
            /\ store' = [store EXCEPT ![key] = out.value]
            /\ out_info' = out.mod_info
            /\ out_result' = out.result
            /\ out_resp' = EmptyResp
            /\ crashed' = out.crash
            /\ UNCHANGED <<batch_vars, ext_vars>>

\* One call of rdb_delete.
CallRdbDelete ==
    \E key \in StoreKeys :
        LET out == rdb_delete(store[key], EmptyModInfo)
        IN  /\ ~crashed
            /\ call' = [NoCall EXCEPT !.op = "rdb_delete", !.key = key]
            /\ prev_store' = store
            /\ store' = [store EXCEPT ![key] = out.value]
            /\ out_info' = out.mod_info
            /\ out_result' = out.result
            /\ out_resp' = EmptyResp
            /\ crashed' = out.crash
            /\ UNCHANGED <<batch_vars, ext_vars>>

\* One call of rdb_replace_and_return_superblock, for every behaviour of
\* the replacer.
CallRdbReplace ==
    \E key \in StoreKeys, r \in FnResults :
        LET out == rdb_replace_and_return_superblock(
                       key, store[key], r, EmptyModInfo)
        IN  /\ ~crashed
            /\ call' = [NoCall EXCEPT !.op = "rdb_replace", !.key = key,
                                      !.fn = r]
            /\ prev_store' = store
            /\ store' = [store EXCEPT ![key] = out.value]
            /\ out_info' = out.mod_info
            /\ out_result' = "NONE"
            /\ out_resp' = out.resp
            /\ crashed' = out.crash
            /\ UNCHANGED <<batch_vars, ext_vars>>

Init == PointInit

Next == CallRdbSet \/ CallRdbDelete \/ CallRdbReplace

Spec == Init /\ [][Next]_vars

(***************************************************************************)
(* rdb_batched_replace.  The coordinator spawns one coroutine per key,     *)
(* hands it the superblock and waits for the superblock to come back       *)
(* through the promise before it spawns the next one.  Each coroutine runs *)
(* do_a_replace_from_batched_replace.                                      *)
(***************************************************************************)

\* ql::stats_merge over two responses, a commutative and associative merge:
\* counters add, and of two error messages one is kept, the same one
\* whichever side it came from.
stats_merge(a, b) ==
    [skipped |-> a.skipped + b.skipped,
     inserted |-> a.inserted + b.inserted,
     deleted |-> a.deleted + b.deleted,
     replaced |-> a.replaced + b.replaced,
     unchanged |-> a.unchanged + b.unchanged,
     errors |-> a.errors + b.errors,
     first_error |-> IF a.first_error = "" THEN b.first_error
                     ELSE IF b.first_error = "" THEN a.first_error
                     ELSE CHOOSE e \in {a.first_error, b.first_error} : TRUE]

\* *stats_out = (*stats_out)->merge(res, ql::stats_merge)
merge_res_Overwrites(stats_out, r) == r

merge_res_Twice(stats_out, r) == stats_merge(stats_merge(stats_out, r), r)

merge_res(stats_out, r) == stats_merge(stats_out, r)

\* What the replacer of a batch does at a position with the given key: it
\* returns null, a document of the key or a number, or it throws.
BatchFnResults(key) ==
    {Returns(d) : d \in DocsOf(key) \cup {NullDatum, NumDatum}}
        \cup {ThrowsEval, ThrowsInterrupted}

\* The tables a batch can start on: every key absent or holding a document.
InitialStores ==
    {s \in [StoreKeys -> {NoValue} \cup {Encode(d) : d \in Objects}] :
        \A k \in StoreKeys :
            s[k] = NoValue \/ (get_data(s[k]) \in DocsOf(k)
                               /\ get_data(s[k]).body = "a")}

\* The key sequences of a batch, up to a renaming of the primary keys (the
\* operations treat all keys alike): a key value appears only after every
\* smaller one has appeared.
BatchKeys ==
    {ks \in [Positions -> StoreKeys] :
        \A i \in Positions : \A p \in 1..(ks[i][2] - 1) :
            \E j \in 1..(i - 1) : ks[j][2] = p}

\* rdb_batched_replace has been called with some keys on some table; the
\* caller's superblock was released into current_superblock.
BatchInit ==
    /\ ExtIdle
    /\ store \in InitialStores
    /\ prev_store = store
    /\ call = NoCall
    /\ out_info = EmptyModInfo
    /\ out_result = "NONE"
    /\ out_resp = EmptyResp
    /\ crashed = FALSE
    /\ keys \in BatchKeys
    /\ coord = [pc |-> "spawn", i |-> 1]
    /\ superblock = [holder |-> "coordinator", task |-> 0]
    /\ pc = [i \in Positions |-> "unspawned"]
    /\ fn = [i \in Positions |-> NoFn]
    /\ old_value = [i \in Positions |-> NoValue]
    /\ res = [i \in Positions |-> EmptyResp]
    /\ mod_report = [i \in Positions |-> EmptyModInfo]
    /\ stats = EmptyResp
    /\ merge_order = <<>>
    /\ fifo_exited = 0
    /\ sindex_lock = 0
    /\ sindex_queue = <<>>
    /\ applied = <<>>

\* coro_t::spawn_sometime: the coroutine of keys[i] is created with write
\* token i and with the superblock released from current_superblock.
CoordSpawn ==
    /\ ~crashed
    /\ coord.pc = "spawn"
    /\ superblock.holder = "coordinator"
    /\ pc' = [pc EXCEPT ![coord.i] = "spawned"]
    /\ superblock' = [holder |-> "task", task |-> coord.i]
    /\ coord' = [coord EXCEPT !.pc = "wait"]
    /\ UNCHANGED <<store, crashed, point_vars, ext_vars, keys, fn, old_value, res,
                   mod_report, stats, merge_order, fifo_exited, sindex_lock,
                   sindex_queue, applied>>

\* superblock_promise.wait() returns: the coroutine has pulsed the promise.
promise_wait_NoWait == TRUE

promise_wait == superblock.holder = "promise"

\* current_superblock.init(superblock_promise.wait()), then ++i; after the
\* last key the loop ends.
CoordWait ==
    /\ ~crashed
    /\ coord.pc = "wait"
    /\ promise_wait
    /\ superblock' = [holder |-> "coordinator", task |-> 0]
    /\ coord' = IF coord.i < BatchLen
                THEN [pc |-> "spawn", i |-> coord.i + 1]
                ELSE [pc |-> "release", i |-> coord.i + 1]
    /\ UNCHANGED <<store, crashed, point_vars, ext_vars, keys, pc, fn, old_value, res,
                   mod_report, stats, merge_order, fifo_exited, sindex_lock,
                   sindex_queue, applied>>

\* The block ends: current_superblock is destructed before the drainer.
CoordRelease ==
    /\ ~crashed
    /\ coord.pc = "release"
    /\ superblock' = [holder |-> "released", task |-> 0]
    /\ coord' = [coord EXCEPT !.pc = "drain"]
    /\ UNCHANGED <<store, crashed, point_vars, ext_vars, keys, pc, fn, old_value, res,
                   mod_report, stats, merge_order, fifo_exited, sindex_lock,
                   sindex_queue, applied>>

\* ~auto_drainer_t returns when every coroutine has finished; then
\* "return stats".
CoordReturn ==
    /\ ~crashed
    /\ coord.pc = "drain"
    /\ \A i \in Positions : pc[i] = "done"
    /\ coord' = [coord EXCEPT !.pc = "returned"]
    /\ UNCHANGED <<store, crashed, point_vars, ext_vars, keys, superblock, pc, fn,
                   old_value, res, mod_report, stats, merge_order,
                   fifo_exited, sindex_lock, sindex_queue, applied>>

\* find_keyvalue_location_for_write, first part: the coroutine takes the
\* root with the superblock it was given and hands the superblock back by
\* pulsing superblock_promise.
TaskReleaseSuperblock(i) ==
    /\ ~crashed
    /\ pc[i] = "spawned"
    /\ superblock = [holder |-> "task", task |-> i]
    /\ superblock' = [holder |-> "promise", task |-> i]
    /\ pc' = [pc EXCEPT ![i] = "descending"]
    /\ UNCHANGED <<store, crashed, point_vars, ext_vars, keys, coord, fn, old_value,
                   res, mod_report, stats, merge_order, fifo_exited,
                   sindex_lock, sindex_queue, applied>>

\* The write lock of the leaf of keys[i] can be taken by coroutine i: the
\* coroutines that entered the tree before it and go to the same key have
\* let go of theirs (locks are granted in the order of the descent).
key_lock_free(i) ==
    \A j \in 1..(i - 1) :
        keys[j] = keys[i] => pc[j] \notin {"descending", "located"}

\* find_keyvalue_location_for_write, second part: kv_location is filled in
\* and holds the leaf.
TaskLocate(i) ==
    /\ ~crashed
    /\ pc[i] = "descending"
    /\ key_lock_free(i)
    /\ old_value' = [old_value EXCEPT ![i] = store[keys[i]]]
    /\ pc' = [pc EXCEPT ![i] = "located"]
    /\ UNCHANGED <<store, crashed, point_vars, ext_vars, keys, coord, superblock, fn,
                   res, mod_report, stats, merge_order, fifo_exited,
                   sindex_lock, sindex_queue, applied>>

\* The rest of rdb_replace_and_return_superblock (the replacer is called,
\* its result checked and applied, kv_location destroyed), and the merge of
\* the result into *stats_out.
TaskReplaceWith(i, r) ==
    /\ ~crashed
    /\ pc[i] = "located"
    /\ LET out == rdb_replace_and_return_superblock(
                      keys[i], store[keys[i]], r, EmptyModInfo)
       IN  /\ fn' = [fn EXCEPT ![i] = r]
           /\ store' = [store EXCEPT ![keys[i]] = out.value]
           /\ res' = [res EXCEPT ![i] = out.resp]
           /\ mod_report' = [mod_report EXCEPT ![i] = out.mod_info]
           /\ stats' = merge_res(stats, out.resp)
           /\ crashed' = out.crash
    /\ merge_order' = Append(merge_order, i)
    /\ pc' = [pc EXCEPT ![i] = "evaluated"]
    /\ UNCHANGED <<point_vars, ext_vars, keys, coord, superblock, old_value,
                   fifo_exited, sindex_lock, sindex_queue, applied>>

\* exiter.wait() returns for write token i: every earlier token has exited.
exiter_wait_Unordered(i) == TRUE

exiter_wait_ForItself(i) == fifo_exited = i

exiter_wait(i) == fifo_exited = i - 1

\* store_->lock_sindex_queue(sindex_block_, &acq) returns: the mutex of the
\* sindex queue was free and acq holds it.
lock_sindex_queue_NoMutex == TRUE

lock_sindex_queue == sindex_lock = 0

\* exiter.wait() returns, and on_mod_report takes the sindex queue mutex
\* and pushes the report onto the sindex queue.
TaskReport(i) ==
    /\ ~crashed
    /\ pc[i] = "evaluated"
    /\ exiter_wait(i)
    /\ lock_sindex_queue
    /\ sindex_lock' = i
    /\ sindex_queue' = Append(sindex_queue,
                              [pos |-> i, primary_key |-> keys[i],
                               info |-> mod_report[i]])
    /\ pc' = [pc EXCEPT ![i] = "reporting"]
    /\ UNCHANGED <<store, crashed, point_vars, ext_vars, keys, coord, superblock, fn,
                   old_value, res, mod_report, stats, merge_order,
                   fifo_exited, applied>>

\* rdb_update_sindexes returns, on_mod_report returns (the mutex is
\* released), and the exiter is destructed: write token i has exited.
TaskExit(i) ==
    /\ ~crashed
    /\ pc[i] = "reporting"
    /\ updating = "none"
    /\ applied' = Append(applied, i)
    /\ sindex_lock' = 0
    /\ fifo_exited' = fifo_exited + 1
    /\ pc' = [pc EXCEPT ![i] = "done"]
    /\ UNCHANGED <<store, crashed, point_vars, ext_vars, keys, coord, superblock, fn,
                   old_value, res, mod_report, stats, merge_order,
                   sindex_queue>>

TaskReplace(i) == \E r \in BatchFnResults(keys[i]) : TaskReplaceWith(i, r)

BatchNext ==
    \/ CoordSpawn
    \/ CoordWait
    \/ CoordRelease
    \/ CoordReturn
    \/ \E i \in Positions : TaskReleaseSuperblock(i)
    \/ \E i \in Positions : TaskLocate(i)
    \/ \E i \in Positions : TaskReplace(i)
    \/ \E i \in Positions : TaskReport(i)
    \/ \E i \in Positions : TaskExit(i)

SpecBatch == BatchInit /\ [][BatchNext]_vars

\* The batches on an empty table, with a scheduler that runs a coroutine
\* as long as one can run: every call of the replacer returns or throws
\* (it is a step of TaskReplace), and a lock that is free is granted.
BatchLiveInit ==
    /\ BatchInit
    /\ \A k \in StoreKeys : store[k] = NoValue

SpecBatchLive ==
    BatchLiveInit /\ [][BatchNext]_vars /\ WF_vars(BatchNext)

(***************************************************************************)
(* on_mod_report and rdb_update_sindexes.  rdb_update_sindexes spawns one  *)
(* rdb_update_single_sindex coroutine per index it was given and waits for *)
(* all of them; each coroutine visits its keys one at a time and may be    *)
(* descheduled between two visits.                                         *)
(***************************************************************************)

\* kv_location_set of raw bytes: the slot takes value_ref as it is.
kv_location_set_ref_KeepsEntry(value, value_ref) ==
    IF value # NoValue THEN value ELSE value_ref

kv_location_set_ref(value, value_ref) == value_ref

\* rdb_update_sindexes spawns its coroutines for the indexes of sindexes.
spawn_updates(sindexes) ==
    [x \in Sindexes |->
        IF x \in sindexes THEN [pc |-> "spawned", todo |-> <<>>] ELSE NoUpdate]

\* A replace of one key whose report is handed to on_mod_report: the sindex
\* queue mutex is taken, the report pushed, and rdb_update_sindexes called
\* with the post-constructed indexes.
OnModReport ==
    /\ ~crashed
    /\ lock_sindex_queue
    /\ Len(sindex_queue) < BatchLen
    /\ \E k \in StoreKeys : \E r \in BatchFnResults(k) :
        LET out == rdb_replace_and_return_superblock(
                       k, store[k], r, EmptyModInfo)
        IN  /\ store' = [store EXCEPT ![k] = out.value]
            /\ crashed' = out.crash
            /\ report' = [primary_key |-> k, info |-> out.mod_info]
            /\ sindex_queue' =
                  Append(sindex_queue,
                         [pos |-> Len(sindex_queue) + 1, primary_key |-> k,
                          info |-> out.mod_info])
    /\ sindex_lock' = 1
    /\ updating' = "on_mod_report"
    /\ update' = spawn_updates(post_constructed)
    /\ update_log' = [x \in Sindexes |-> <<>>]
    /\ cleared' = <<>>
    /\ UNCHANGED <<point_vars, replace_vars, sindex, mapping,
                   post_constructed, snapshot, pcons, rest_vars>>

\* rdb_update_single_sindex starts: its guarantees, and the keys of the
\* report under the index function.
UpdateBegin(x) ==
    /\ ~crashed
    /\ update[x].pc = "spawned"
    /\ LET bad == \/ report.primary_key = <<>>
                  \/ /\ report.info.deleted.first # NoDatum
                     /\ report.info.deleted.second = NoValue
           ops == rdb_update_single_sindex(x, mapping[x], report)
       IN  /\ crashed' = bad
           /\ update' = [update EXCEPT ![x] =
                 IF bad THEN @
                 ELSE [pc |-> IF ops = <<>> THEN "done" ELSE "running",
                       todo |-> ops]]
    /\ UNCHANGED <<store, point_vars, batch_vars, sindex, mapping,
                   post_constructed, updating, report, update_log, cleared,
                   snapshot, pcons, rest_vars>>

\* One key visit of rdb_update_single_sindex: the entry is located, then
\* deleted if it has a value, or set to the raw bytes of the report.
UpdateStep(x) ==
    /\ ~crashed
    /\ update[x].pc = "running"
    /\ LET op == Head(update[x].todo)
           rest == Tail(update[x].todo)
           value == sindex[x][op.key]
           after ==
               IF op.op = "delete"
               THEN IF value # NoValue
                    THEN kv_location_delete(value, EmptyModInfo).value
                    ELSE value
               ELSE kv_location_set_ref(value, report.info.added.second)
       IN  /\ sindex' = [sindex EXCEPT ![x][op.key] = after]
           /\ update_log' = [update_log EXCEPT ![x] =
                 Append(@, [op |-> op.op, key |-> op.key, found |-> value])]
           /\ update' = [update EXCEPT ![x] =
                 [pc |-> IF rest = <<>> THEN "done" ELSE "running",
                  todo |-> rest]]
    /\ UNCHANGED <<store, crashed, point_vars, batch_vars, mapping,
                   post_constructed, updating, report, cleared, snapshot,
                   pcons, rest_vars>>

\* The drainer of rdb_update_sindexes is destructed: every coroutine it
\* spawned has finished.
update_drained_NoWait == TRUE

update_drained == \A x \in Sindexes : update[x].pc \in {"idle", "done"}

\* Every coroutine has finished: the drainer of rdb_update_sindexes is
\* destructed, the blob of the deleted value is cleared if the report has a
\* deleted document, and rdb_update_sindexes returns; on_mod_report then
\* returns and releases the sindex queue mutex.
UpdateSindexesReturn ==
    /\ ~crashed
    /\ updating # "none"
    /\ update_drained
    /\ cleared' = IF report.info.deleted.first # NoDatum
                  THEN Append(cleared, report.info.deleted.second)
                  ELSE cleared
    /\ update' = [x \in Sindexes |-> NoUpdate]
    /\ updating' = "none"
    /\ sindex_lock' = IF updating = "on_mod_report" THEN 0 ELSE sindex_lock
    /\ UNCHANGED <<store, crashed, point_vars, replace_vars, sindex_queue,
                   sindex, mapping, post_constructed, report, update_log,
                   snapshot, pcons, rest_vars>>

\* The tables with their indexes: some indexes are post-constructed and
\* agree with the table, the others have no entries yet.
SindexTables ==
    /\ store \in InitialStores
    /\ mapping \in [Sindexes -> Mappings]
    /\ post_constructed \in {Sindexes, {"s2"}}
    /\ sindex = [x \in Sindexes |->
                    IF x \in post_constructed
                    THEN IndexOf(store, x, mapping[x])
                    ELSE EmptyTree]

\* No point operation was called and no batched replace is running.
CallersIdle ==
    /\ prev_store = store
    /\ call = NoCall
    /\ out_info = EmptyModInfo
    /\ out_result = "NONE"
    /\ out_resp = EmptyResp
    /\ crashed = FALSE
    /\ BatchIdle

SindexInit ==
    /\ SindexTables
    /\ CallersIdle
    /\ SindexIdle
    /\ PostConstructIdle
    /\ EraseIdle
    /\ ScanIdle
    /\ DistributionIdle

SindexNext ==
    \/ OnModReport
    \/ \E x \in Sindexes : UpdateBegin(x)
    \/ \E x \in Sindexes : UpdateStep(x)
    \/ UpdateSindexesReturn

SpecSindex == SindexInit /\ [][SindexNext]_vars

\* Writes that report to on_mod_report one after the other on tables whose
\* indexes share one function, string-valued or array-valued.
SindexQueueInit ==
    /\ SindexInit
    /\ \E f \in {ByBody, ArrayOfTwo} : mapping = [x \in Sindexes |-> f]

SpecSindexQueue == SindexQueueInit /\ [][SindexNext]_vars

\* Index functions for the application of single reports: both indexes use
\* the same function, or one of them fails where the other does not.
ApplyMappings ==
    {[x \in Sindexes |-> f] : f \in {ByBody, ArrayOfTwo}}
    \cup {[x \in Sindexes |-> IF x = "s1" THEN FailsOnB ELSE ArrayOfTwo],
          [x \in Sindexes |-> IF x = "s1" THEN ByBody ELSE ArrayWithNull]}

\* Reports applied to indexes that are one key apart from the table: an
\* earlier rdb_erase_range erased the entries of a key whose document the
\* caller's key tester kept, or its index erase was interrupted and left
\* the entries of a document the primary erase removed.  The key is the
\* first one, up to a renaming of the primary keys.
ApplyInit ==
    /\ store \in InitialStores
    /\ mapping \in ApplyMappings
    /\ post_constructed \in {Sindexes, {"s2"}}
    /\ \E indexed \in InitialStores :
          /\ \A k \in StoreKeys : indexed[k] # store[k] => position(k) = 1
          /\ sindex = [x \in Sindexes |->
                          IF x \in post_constructed
                          THEN IndexOf(indexed, x, mapping[x])
                          ELSE EmptyTree]
    /\ CallersIdle
    /\ SindexIdle
    /\ PostConstructIdle
    /\ EraseIdle
    /\ ScanIdle
    /\ DistributionIdle

SpecSindexApply == ApplyInit /\ [][SindexNext]_vars

(***************************************************************************)
(* rdb_batched_replace with the secondary indexes of its table: the        *)
(* on_mod_report of each position runs rdb_update_sindexes on its report.  *)
(***************************************************************************)

\* What the replacer does in the batches followed down to the indexes: it
\* returns null or a document of the key (a replace that fails leaves the
\* report of one that is skipped).
IndexedFnResults(key) == {Returns(d) : d \in DocsOf(key) \cup {NullDatum}}

IndexedMappings ==
    {[x \in Sindexes |-> f] : f \in {ByBody, ArrayOfTwo}}

\* A batch on a table whose post-constructed index agrees with it.  The
\* keys the batch does not name hold nothing: it does not go near them.
BatchSindexInit ==
    /\ store \in InitialStores
    /\ mapping \in IndexedMappings
    /\ post_constructed = {"s2"}
    /\ sindex = [x \in Sindexes |->
                    IF x \in post_constructed
                    THEN IndexOf(store, x, mapping[x])
                    ELSE EmptyTree]
    /\ SindexIdle
    /\ PostConstructIdle
    /\ EraseIdle
    /\ ScanIdle
    /\ DistributionIdle
    /\ prev_store = store
    /\ call = NoCall
    /\ out_info = EmptyModInfo
    /\ out_result = "NONE"
    /\ out_resp = EmptyResp
    /\ crashed = FALSE
    /\ keys \in BatchKeys
    /\ \A k \in StoreKeys :
          (\A i \in Positions : keys[i] # k) => store[k] = NoValue
    /\ coord = [pc |-> "spawn", i |-> 1]
    /\ superblock = [holder |-> "coordinator", task |-> 0]
    /\ pc = [i \in Positions |-> "unspawned"]
    /\ fn = [i \in Positions |-> NoFn]
    /\ old_value = [i \in Positions |-> NoValue]
    /\ res = [i \in Positions |-> EmptyResp]
    /\ mod_report = [i \in Positions |-> EmptyModInfo]
    /\ stats = EmptyResp
    /\ merge_order = <<>>
    /\ fifo_exited = 0
    /\ sindex_lock = 0
    /\ sindex_queue = <<>>
    /\ applied = <<>>

\* exiter.wait() returns and on_mod_report runs up to the spawning of the
\* coroutines of rdb_update_sindexes: the sindex queue mutex is taken, the
\* report pushed, and one coroutine spawned for every post-constructed
\* index.
TaskOnModReport(i) ==
    /\ ~crashed
    /\ pc[i] = "evaluated"
    /\ exiter_wait(i)
    /\ lock_sindex_queue
    /\ updating = "none"
    /\ sindex_lock' = i
    /\ sindex_queue' = Append(sindex_queue,
                              [pos |-> i, primary_key |-> keys[i],
                               info |-> mod_report[i]])
    /\ pc' = [pc EXCEPT ![i] = "reporting"]
    /\ report' = [primary_key |-> keys[i], info |-> mod_report[i]]
    /\ updating' = "batch"
    /\ update' = spawn_updates(post_constructed)
    /\ update_log' = [x \in Sindexes |-> <<>>]
    /\ cleared' = <<>>
    /\ UNCHANGED <<store, crashed, point_vars, keys, coord, superblock, fn,
                   old_value, res, mod_report, stats, merge_order,
                   fifo_exited, applied, sindex, mapping, post_constructed,
                   snapshot, pcons, rest_vars>>

BatchSindexNext ==
    \/ CoordSpawn
    \/ CoordWait
    \/ CoordRelease
    \/ CoordReturn
    \/ \E i \in Positions : TaskReleaseSuperblock(i)
    \/ \E i \in Positions : TaskLocate(i)
    \/ \E i \in Positions :
          \E r \in IndexedFnResults(keys[i]) : TaskReplaceWith(i, r)
    \/ \E i \in Positions : TaskOnModReport(i)
    \/ \E x \in Sindexes : UpdateBegin(x)
    \/ \E x \in Sindexes : UpdateStep(x)
    \/ UpdateSindexesReturn
    \/ \E i \in Positions : TaskExit(i)

SpecBatchSindex == BatchSindexInit /\ [][BatchSindexNext]_vars

(***************************************************************************)
(* post_construct_secondary_indexes.  The traversal reads a snapshot of    *)
(* the primary tree and hands its leaves to process_a_leaf, which feeds    *)
(* each pair of the leaf to rdb_update_sindexes with the indexes under     *)
(* construction and yields.  The leaves come in no particular order.       *)
(* Writes to the table go on meanwhile and do not show in the snapshot.    *)
(***************************************************************************)

\* Every table: each key absent or holding a document of the key.
Tables ==
    {s \in [StoreKeys -> {NoValue} \cup {Encode(d) : d \in Objects}] :
        \A k \in StoreKeys : s[k] = NoValue \/ get_data(s[k]) \in DocsOf(k)}

\* The keys of a table that hold a document.
KeysOf(table) == {k \in StoreKeys : table[k] # NoValue}

\* The report process_a_leaf makes for one pair of the leaf.
post_construct_report_AsDeleted(pk, value) ==
    [primary_key |-> pk,
     info |-> [deleted |-> [first |-> get_data(value), second |-> value],
               added |-> [first |-> get_data(value), second |-> value]]]

post_construct_report(pk, value) ==
    [primary_key |-> pk,
     info |-> [deleted |-> NoSide,
               added |-> [first |-> get_data(value), second |-> value]]]

\* sindexes_to_post_construct
ToPostConstruct == Sindexes \ post_constructed

PostConstructInit ==
    /\ store \in Tables
    /\ mapping \in [Sindexes -> Mappings]
    /\ post_constructed \in {{}, {"s1"}}
    /\ sindex = [x \in Sindexes |->
                    IF x \in post_constructed
                    THEN IndexOf(store, x, mapping[x])
                    ELSE EmptyTree]
    /\ CallersIdle
    /\ SindexIdle
    /\ snapshot = store
    /\ pcons = [pc |-> "traversing", todo |-> KeysOf(store)]
    /\ EraseIdle
    /\ ScanIdle
    /\ DistributionIdle

\* process_a_leaf reaches the next pair: it builds the report and calls
\* rdb_update_sindexes.
ProcessPair ==
    /\ ~crashed
    /\ pcons.pc = "traversing"
    /\ updating = "none"
    /\ \E k \in pcons.todo :
        /\ report' = post_construct_report(k, snapshot[k])
        /\ pcons' = [pcons EXCEPT !.todo = @ \ {k}]
    /\ updating' = "process_a_leaf"
    /\ update' = spawn_updates(ToPostConstruct)
    /\ update_log' = [x \in Sindexes |-> <<>>]
    /\ cleared' = <<>>
    /\ UNCHANGED <<store, crashed, point_vars, batch_vars, sindex, mapping,
                   post_constructed, snapshot, rest_vars>>

\* The interruptor is pulsed: the traversal stops with the leaves it has.
PostConstructInterrupted ==
    /\ ~crashed
    /\ pcons.pc = "traversing"
    /\ updating = "none"
    /\ pcons' = [pcons EXCEPT !.pc = "interrupted"]
    /\ UNCHANGED <<store, crashed, point_vars, batch_vars, sindex_vars,
                   snapshot, rest_vars>>

\* btree_parallel_traversal has visited every leaf and returns.
PostConstructReturn ==
    /\ ~crashed
    /\ pcons.pc = "traversing"
    /\ pcons.todo = {}
    /\ updating = "none"
    /\ pcons' = [pcons EXCEPT !.pc = "done"]
    /\ UNCHANGED <<store, crashed, point_vars, batch_vars, sindex_vars,
                   snapshot, rest_vars>>

\* A write to the table while the traversal is under way.
ConcurrentWrite ==
    /\ pcons.pc = "traversing"
    /\ sindex_queue = <<>>
    /\ updating = "none"
    /\ OnModReport

PostConstructNext ==
    \/ ProcessPair
    \/ \E x \in Sindexes : UpdateBegin(x)
    \/ \E x \in Sindexes : UpdateStep(x)
    \/ UpdateSindexesReturn
    \/ PostConstructInterrupted
    \/ PostConstructReturn
    \/ ConcurrentWrite

SpecPostConstruct == PostConstructInit /\ [][PostConstructNext]_vars

(***************************************************************************)
(* rdb_erase_range.  It pushes an erase range report onto the sindex       *)
(* queue, spawns one sindex_erase_range coroutine per post-constructed     *)
(* index under a drainer, and erases the range of the primary tree after   *)
(* the drainer is destructed.  btree_erase_range_generic erases a key at a *)
(* time and throws interrupted_exc_t when it finds the interruptor pulsed. *)
(***************************************************************************)

\* The mappings of the tables an erase runs on: both indexes have the same
\* function, which gives a document one, two or no index values.
EraseMappings ==
    {[x \in Sindexes |-> f] : f \in {ByBody, ArrayOfTwo, ArrayOrNone}}

\* rdb_erase_range has been called with a key range and a tester.  An
\* index that is not post-constructed was built but not yet marked.
EraseInit ==
    /\ store \in InitialStores
    /\ mapping \in EraseMappings
    /\ post_constructed \in {Sindexes, {"s2"}}
    /\ sindex = [x \in Sindexes |-> IndexOf(store, x, mapping[x])]
    /\ CallersIdle
    /\ SindexIdle
    /\ PostConstructIdle
    /\ ScanIdle
    /\ DistributionIdle
    /\ \E range \in KeyRanges : \E tester \in Testers :
          erase = [pc |-> "called", key_range |-> range, tester |-> tester,
                   interruptor |-> FALSE, todo |-> {}]
    /\ sindex_erase = [x \in Sindexes |-> NoErase]

\* rdb_erase_range up to the spawn: the guarantee, the erase range report
\* pushed under the sindex queue mutex, and one coroutine spawned for each
\* post-constructed index.
EraseCall ==
    /\ ~crashed
    /\ erase.pc = "called"
    /\ lock_sindex_queue
    /\ IF is_empty(erase.key_range)
       THEN /\ crashed' = TRUE
            /\ UNCHANGED <<sindex_queue, erase, sindex_erase,
                   scan_vars, distribution>>
       ELSE /\ crashed' = crashed
            /\ sindex_queue' =
                  Append(sindex_queue, [range_to_erase |-> erase.key_range])
            /\ sindex_erase' =
                  [x \in Sindexes |->
                      IF x \in post_constructed
                      THEN [NoErase EXCEPT !.pc = "spawned"]
                      ELSE NoErase]
            /\ erase' = [erase EXCEPT !.pc = "draining"]
    /\ UNCHANGED <<store, point_vars, replace_vars, sindex_lock, sindex_vars,
                   snapshot, pcons,
                   scan_vars, distribution>>

\* sindex_erase_range starts btree_erase_range_generic on its index.
SindexEraseBegin(x) ==
    /\ ~crashed
    /\ sindex_erase[x].pc = "spawned"
    /\ LET todo == sindex_erase_keys(sindex[x], erase.key_range)
       IN  sindex_erase' = [sindex_erase EXCEPT ![x] =
               [pc |-> IF todo = {} THEN "done" ELSE "running",
                todo |-> todo, interrupted |-> FALSE]]
    /\ UNCHANGED <<store, crashed, point_vars, batch_vars, sindex_vars,
                   snapshot, pcons, erase,
                   scan_vars, distribution>>

\* btree_erase_range_generic erases the next entry of the index.
SindexEraseStep(x) ==
    /\ ~crashed
    /\ sindex_erase[x].pc = "running"
    /\ LET key == CHOOSE key \in sindex_erase[x].todo : TRUE
           rest == sindex_erase[x].todo \ {key}
       IN  /\ sindex' = [sindex EXCEPT ![x][key] = NoValue]
           /\ sindex_erase' = [sindex_erase EXCEPT ![x] =
                 [pc |-> IF rest = {} THEN "done" ELSE "running",
                  todo |-> rest, interrupted |-> FALSE]]
    /\ UNCHANGED <<store, crashed, point_vars, batch_vars, mapping,
                   post_constructed, updating, report, update, update_log,
                   cleared, snapshot, pcons, erase,
                   scan_vars, distribution>>

\* btree_erase_range_generic throws interrupted_exc_t; sindex_erase_range
\* catches it and returns.
SindexEraseInterrupted(x) ==
    /\ ~crashed
    /\ sindex_erase[x].pc = "running"
    /\ erase.interruptor
    /\ sindex_erase' = [sindex_erase EXCEPT ![x] =
          [pc |-> "done", todo |-> @.todo, interrupted |-> TRUE]]
    /\ UNCHANGED <<store, crashed, point_vars, batch_vars, sindex_vars,
                   snapshot, pcons, erase,
                   scan_vars, distribution>>

\* The destructor of sindex_erase_drainer returns: every coroutine spawned
\* by spawn_sindex_erase_ranges has finished.
sindex_erase_drained_NoWait == TRUE

sindex_erase_drained ==
    \A x \in Sindexes : sindex_erase[x].pc \in {"idle", "done"}

\* The block of the drainer is left, the keys are twiddled and
\* btree_erase_range_generic is called on the primary tree with the
\* caller's tester.
EraseDrained ==
    /\ ~crashed
    /\ erase.pc = "draining"
    /\ sindex_erase_drained
    /\ LET l == decrement(erase.key_range.left)
           r == decrement(erase.key_range.right)
           left == [supplied |-> l.ok, key |-> l.key]
           right == [supplied |-> ~erase.key_range.unbounded, key |-> r.key]
       IN  erase' = [erase EXCEPT
               !.pc = "erasing",
               !.todo = primary_erase_keys(store, erase.tester, left, right)]
    /\ UNCHANGED <<store, crashed, point_vars, batch_vars, sindex_vars,
                   snapshot, pcons, sindex_erase,
                   scan_vars, distribution>>

\* btree_erase_range_generic erases the next key of the primary tree.
PrimaryEraseStep ==
    /\ ~crashed
    /\ erase.pc = "erasing"
    /\ erase.todo # {}
    /\ LET k == CHOOSE k \in erase.todo : TRUE
       IN  /\ store' = [store EXCEPT ![k] = NoValue]
           /\ erase' = [erase EXCEPT !.todo = @ \ {k}]
    /\ UNCHANGED <<crashed, point_vars, batch_vars, sindex_vars, snapshot,
                   pcons, sindex_erase,
                   scan_vars, distribution>>

\* btree_erase_range_generic throws interrupted_exc_t out of
\* rdb_erase_range.
PrimaryEraseInterrupted ==
    /\ ~crashed
    /\ erase.pc = "erasing"
    /\ erase.interruptor
    /\ erase' = [erase EXCEPT !.pc = "interrupted"]
    /\ UNCHANGED <<store, crashed, point_vars, batch_vars, sindex_vars,
                   snapshot, pcons, sindex_erase,
                   scan_vars, distribution>>

\* rdb_erase_range returns.
EraseReturn ==
    /\ ~crashed
    /\ erase.pc = "erasing"
    /\ erase.todo = {}
    /\ erase' = [erase EXCEPT !.pc = "returned"]
    /\ UNCHANGED <<store, crashed, point_vars, batch_vars, sindex_vars,
                   snapshot, pcons, sindex_erase,
                   scan_vars, distribution>>

\* The interruptor is pulsed while rdb_erase_range is running.
InterruptorPulsed ==
    /\ ~crashed
    /\ erase.pc \in {"draining", "erasing"}
    /\ ~erase.interruptor
    /\ erase' = [erase EXCEPT !.interruptor = TRUE]
    /\ UNCHANGED <<store, crashed, point_vars, batch_vars, sindex_vars,
                   snapshot, pcons, sindex_erase,
                   scan_vars, distribution>>

EraseNext ==
    \/ EraseCall
    \/ \E x \in Sindexes : SindexEraseBegin(x)
    \/ \E x \in Sindexes : SindexEraseStep(x)
    \/ \E x \in Sindexes : SindexEraseInterrupted(x)
    \/ EraseDrained
    \/ PrimaryEraseStep
    \/ PrimaryEraseInterrupted
    \/ EraseReturn
    \/ InterruptorPulsed

SpecErase == EraseInit /\ [][EraseNext]_vars

(***************************************************************************)
(* Range scans: rdb_rget_slice on the primary tree.  The read begins with  *)
(* a scan of the whole range; when a scan returns truncated the reader     *)
(* asks again for the keys strictly after last_considered_key in the       *)
(* direction of the scan.                                                  *)
(***************************************************************************)

ScanInit ==
    /\ store \in Tables
    /\ crashed = FALSE
    /\ CallersIdle
    /\ sindex = [x \in Sindexes |-> EmptyTree]
    /\ mapping = [x \in Sindexes |-> CHOOSE f \in Mappings : TRUE]
    /\ post_constructed = {}
    /\ SindexIdle
    /\ PostConstructIdle
    /\ EraseIdle
    /\ \E range \in KeyRanges : \E args \in ScanArgs :
          /\ scan = start_scan(store, range, args, range)
          /\ response = start_response(range, args)
          /\ batcher = to_batcher(args.budget)
    /\ handle = [k \in StoreKeys |-> "none"]
    /\ batches = <<>>
    /\ DistributionIdle

\* The tree the scan traverses: the primary tree, or the tree of the index.
scanned ==
    IF scan.args.sindex = NoSindex THEN store ELSE sindex[scan.args.sindex.id]

\* The keys before k in the order of the traversal.
Before(k) ==
    {scan.order[i] : i \in {j \in 1..Len(scan.order) :
        \E l \in (j + 1)..Len(scan.order) : scan.order[l] = k}}

\* btree_concurrent_traversal reaches the next key of the range and starts
\* its handle_pair, which loads the value; no key is started once a
\* handle_pair has returned false.
Dispatch ==
    /\ ~crashed
    /\ scan.pc = "traversing"
    /\ ~scan.failure_cond
    /\ scan.next <= Len(scan.order)
    /\ handle' = [handle EXCEPT ![scan.order[scan.next]] = "waiting"]
    /\ scan' = [scan EXCEPT !.next = @ + 1]
    /\ UNCHANGED <<noscan_vars, response, batcher, batches>>

\* handle_pair of a callback whose init failed: false at once.
HandlePairBadInit(k) ==
    /\ ~crashed
    /\ scan.pc = "traversing"
    /\ handle[k] = "waiting"
    /\ scan.bad_init
    /\ handle' = [handle EXCEPT ![k] = "done"]
    /\ scan' = [scan EXCEPT !.failure_cond = TRUE]
    /\ UNCHANGED <<noscan_vars, response, batcher, batches>>

\* handle_pair of a secondary-index scan on a key whose primary key is
\* outside the primary key range: true at once (lines 719-725), before
\* the value is loaded and before the gate.
HandlePairDiscard(k) ==
    /\ ~crashed
    /\ scan.pc = "traversing"
    /\ handle[k] = "waiting"
    /\ ~scan.bad_init
    /\ outside_primary_key_range(scan.args, k)
    /\ handle' = [handle EXCEPT ![k] = "discarded"]
    /\ UNCHANGED <<noscan_vars, scan, response, batcher, batches>>

\* waiter.wait_interruptible() (line 758) returns: the handle_pair of every
\* key before k in the order of the traversal has returned.
wait_interruptible_NoWait(k) == TRUE

wait_interruptible(k) ==
    \A j \in Before(k) : handle[j] \in {"done", "interrupted", "discarded"}

\* handle_pair from waiter.wait_interruptible() to its return: the keys
\* before it have left the gate and no handle_pair has returned false.
HandlePair(k) ==
    /\ ~crashed
    /\ scan.pc = "traversing"
    /\ handle[k] = "waiting"
    /\ ~scan.bad_init
    /\ ~outside_primary_key_range(scan.args, k)
    /\ ~scan.failure_cond
    /\ wait_interruptible(k)
    /\ LET out == handle_pair(response, batcher, scan.args, k, scanned[k])
       IN  /\ response' = out.response
           /\ batcher' = out.batcher
           /\ scan' = [scan EXCEPT !.failure_cond = ~out.continue]
           /\ crashed' = out.crash
    /\ handle' = [handle EXCEPT ![k] = "done"]
    /\ UNCHANGED <<scan_rest_vars, batches>>

\* wait_interruptible() throws: a handle_pair has returned false while
\* this one was waiting for its turn.
HandlePairInterrupted(k) ==
    /\ ~crashed
    /\ scan.pc = "traversing"
    /\ handle[k] = "waiting"
    /\ ~scan.bad_init
    /\ ~outside_primary_key_range(scan.args, k)
    /\ scan.failure_cond
    /\ handle' = [handle EXCEPT ![k] = "interrupted"]
    /\ UNCHANGED <<noscan_vars, scan, response, batcher, batches>>

\* btree_concurrent_traversal returns, every coroutine drained, and
\* rdb_rget_slice reports whether the batch is full (line 903).
ScanReturn ==
    /\ ~crashed
    /\ scan.pc = "traversing"
    /\ scan.failure_cond \/ scan.next > Len(scan.order)
    /\ \A k \in DOMAIN handle : handle[k] # "waiting"
    /\ response' = [response EXCEPT !.truncated = should_send_batch(batcher)]
    /\ batches' = Append(batches, response')
    /\ scan' = [scan EXCEPT !.pc = "returned"]
    /\ UNCHANGED <<noscan_vars, handle, batcher>>

\* The range of the keys strictly after last in the direction of the scan.
rest_of(range, last, sorting) ==
    IF ~reversed(sorting)
    THEN [range EXCEPT !.left = last + 1]
    ELSE KeyRange(range.left, FALSE, last)

\* The reader asks for the next batch of a truncated scan.
Resume ==
    /\ ~crashed
    /\ scan.pc = "returned"
    /\ response.truncated
    /\ LET range == rest_of(scan.range, response.last_considered_key,
                            scan.args.sorting)
       IN  /\ scan' = start_scan(scanned, range, scan.args, scan.first_range)
           /\ response' = start_response(range, scan.args)
    /\ batcher' = to_batcher(scan.args.budget)
    /\ handle' = [k \in DOMAIN handle |-> "none"]
    /\ UNCHANGED <<noscan_vars, batches>>

ScanNext ==
    \/ Dispatch
    \/ \E k \in DOMAIN handle : HandlePairBadInit(k)
    \/ \E k \in DOMAIN handle : HandlePair(k)
    \/ \E k \in DOMAIN handle : HandlePairInterrupted(k)
    \/ ScanReturn
    \/ Resume

SpecScan == ScanInit /\ [][ScanNext]_vars

(***************************************************************************)
(* Range scans on a secondary index: rdb_rget_secondary_slice.  The tree   *)
(* of the index holds the entries of every document of the table, also of  *)
(* those whose primary key is outside the primary key range of the read.   *)
(***************************************************************************)

\* datum_range_t: the index values from the l-th to the r-th.
datum_range(l, r) == {ValueOrder[i] : i \in l..r}

SindexRanges == {datum_range(1, Len(ValueOrder)), datum_range(2, 4)}

\* sindex_region.inner: all index keys, or the keys up to the middle.
SindexRegions == {KeyRange(0, TRUE, 0), KeyRange(0, FALSE, MaxKey \div 2)}

\* pk_range: every primary key, the first key only, all but the first.
PrimaryKeyRanges ==
    {KeyRange(0, TRUE, 0), KeyRange(0, FALSE, 2), KeyRange(2, TRUE, 2)}

SecondaryScanArgs ==
    [sorting : Sortings, transform : {<<>>}, terminal : Terminals \ {"reduce"},
     budget : Budgets,
     sindex : {[id |-> x, function |-> f, multi |-> multi(x), range |-> r,
                primary_key_range |-> pk] :
                  x \in Sindexes, f \in {ByBody, ArrayOfTwo},
                  r \in SindexRanges, pk \in PrimaryKeyRanges}]

SecondaryScanInit ==
    /\ store \in Tables
    /\ crashed = FALSE
    /\ CallersIdle
    /\ post_constructed = Sindexes
    /\ SindexIdle
    /\ PostConstructIdle
    /\ EraseIdle
    /\ \E range \in SindexRegions : \E args \in SecondaryScanArgs :
          /\ mapping = [x \in Sindexes |-> args.sindex.function]
          /\ sindex = [x \in Sindexes |->
                          IndexOf(store, x, args.sindex.function)]
          /\ scan = start_scan(sindex[args.sindex.id], range, args, range)
          /\ response = start_response(range, args)
          /\ batcher = to_batcher(args.budget)
    /\ handle = [k \in SindexKeys |-> "none"]
    /\ batches = <<>>
    /\ DistributionIdle

SecondaryScanNext ==
    \/ ScanNext
    \/ \E k \in DOMAIN handle : HandlePairDiscard(k)

SpecSecondaryScan == SecondaryScanInit /\ [][SecondaryScanNext]_vars

\* Scans in which an evaluation can fail: the scans of the primary tree,
\* with their transforms and terminals, and the scans of an index with a
\* function that is the function of the index on the documents of body "a"
\* and fails on those of body "b".
FailingScanArgs ==
    [sorting : Sortings, transform : {<<>>}, terminal : {NoTerminal, "count"},
     budget : Budgets,
     sindex : {[id |-> x, function |-> FailsOnB, multi |-> multi(x),
                range |-> datum_range(1, Len(ValueOrder)),
                primary_key_range |-> pk] :
                  x \in Sindexes, pk \in PrimaryKeyRanges}]

FailingScanInit ==
    \/ ScanInit
    \/ /\ store \in Tables
       /\ crashed = FALSE
       /\ CallersIdle
       /\ post_constructed = Sindexes
       /\ SindexIdle
       /\ PostConstructIdle
       /\ EraseIdle
       /\ mapping = [x \in Sindexes |-> ByBody]
       /\ sindex = [x \in Sindexes |-> IndexOf(store, x, ByBody)]
       /\ \E args \in FailingScanArgs :
             LET range == KeyRange(0, TRUE, 0)
             IN  /\ scan = start_scan(sindex[args.sindex.id], range, args,
                                      range)
                 /\ response = start_response(range, args)
                 /\ batcher = to_batcher(args.budget)
       /\ handle = [k \in SindexKeys |-> "none"]
       /\ batches = <<>>
       /\ DistributionIdle

SpecFailingScan == FailingScanInit /\ [][SecondaryScanNext]_vars

(***************************************************************************)
(* rdb_distribution_get.  get_btree_key_distribution reports the number of *)
(* keys of the tree and the split keys it found down to max_depth; the     *)
(* response gets an estimate for the left key and for every split key.     *)
(***************************************************************************)

\* The largest number of keys get_btree_key_distribution reports.
MaxKeyCount == 3 * NumKeys

\* std::max<int64_t>
max(a, b) == IF a >= b THEN a ELSE b

\* Lines 944-949: the estimate of a bucket.
keys_per_bucket(key_count_out, size) ==
    IF size = 0
    THEN key_count_out
    ELSE max(key_count_out \div size, 1)

\* What get_btree_key_distribution reports (a count and split keys, by
\* their positions) and the left key of the caller.
DistributionInit ==
    /\ store \in Tables
    /\ crashed = FALSE
    /\ CallersIdle
    /\ sindex = [x \in Sindexes |-> EmptyTree]
    /\ mapping = [x \in Sindexes |-> CHOOSE f \in Mappings : TRUE]
    /\ post_constructed = {}
    /\ SindexIdle
    /\ PostConstructIdle
    /\ EraseIdle
    /\ ScanIdle
    /\ \E count \in 0..MaxKeyCount : \E splits \in SUBSET (1..NumKeys) :
       \E left \in 0..NumKeys :
          distribution = [pc |-> "called", key_count_out |-> count,
                          key_splits |-> splits, left_key |-> left,
                          key_counts |-> <<>>]

\* rdb_distribution_get from the return of get_btree_key_distribution on.
DistributionGet ==
    /\ distribution.pc = "called"
    /\ LET per == keys_per_bucket(distribution.key_count_out,
                                  Cardinality(distribution.key_splits))
       IN  distribution' =
               [distribution EXCEPT
                   !.pc = "returned",
                   !.key_counts =
                       [k \in {distribution.left_key}
                                 \cup distribution.key_splits |-> per]]
    /\ UNCHANGED <<store, crashed, point_vars, batch_vars, sindex_vars,
                   snapshot, pcons, erase_vars, scan_vars>>

DistributionNext == DistributionGet

SpecDistribution == DistributionInit /\ [][DistributionNext]_vars

(***************************************************************************)
(* Properties of one replace (rdb_replace_and_return_superblock).          *)
(***************************************************************************)

\* The document the last operation found at its key: null when absent.
OldVal ==
    IF prev_store[call.key] = NoValue
    THEN NullDatum
    ELSE get_data(prev_store[call.key])

\* The datum the replacer returned in the last replace.
NewVal == call.fn.val

ReplaceReturned == call.op = "rdb_replace" /\ call.fn.kind = "return"

\* Exactly the outcome name is recorded in out_resp, with count 1.
RecordedOnly(name) ==
    /\ out_resp[name] = 1
    /\ \A n \in (StatusNames \cup {"errors"}) \ {name} : out_resp[n] = 0

\* The transition table as the claim words it: every object is accepted.
TableOutcome(old, new) ==
    CASE new.type \notin {"R_NULL", "R_OBJECT"} -> "errors"
      [] old.type = "R_NULL" /\ new.type = "R_NULL" -> "skipped"
      [] old.type = "R_NULL" /\ new.type = "R_OBJECT" -> "inserted"
      [] old.type = "R_OBJECT" /\ new.type = "R_NULL" -> "deleted"
      [] old.type = "R_OBJECT" /\ new.type = "R_OBJECT" /\ new = old ->
            "unchanged"
      [] old.type = "R_OBJECT" /\ new.type = "R_OBJECT" /\ new # old ->
            "replaced"

\* The new document carries the primary key of the operation's key.
KeepsKey(key, new) == new.pk # NoPk /\ PrintPrimary(new.pk) = key

\* The table with its object rows restricted to objects that keep the key;
\* any other object is a validation error.
TableOutcomeKeyed(key, old, new) ==
    IF new.type = "R_OBJECT" /\ ~KeepsKey(key, new)
    THEN "errors"
    ELSE TableOutcome(old, new)

\* C2 as stated: for one replace on key k the status is given by (old, new)
\* alone: (null,null) skipped, (null,object) inserted, (object,null)
\* deleted, (object, equal object) unchanged, (object, different object)
\* replaced, (any, neither null nor object) an error; exactly one outcome is
\* recorded, with count 1.
C2_StatusTableAsStated ==
    ReplaceReturned => RecordedOnly(TableOutcome(OldVal, NewVal))

\* C2 amended: the same table, where the rows with an object as new are for
\* an object whose primary-key field equals k; an object whose primary key
\* is missing or differs from k gives a validation error.  Exactly one
\* outcome is recorded, with count 1.
C2_StatusTable ==
    ReplaceReturned =>
        RecordedOnly(TableOutcomeKeyed(call.key, OldVal, NewVal))

\* A replace of a stored document by a different document with the same
\* primary key has been counted as replaced.
C2_Witness ==
    /\ ReplaceReturned
    /\ OldVal.type = "R_OBJECT" /\ NewVal.type = "R_OBJECT"
    /\ NewVal # OldVal /\ KeepsKey(call.key, NewVal)
    /\ out_resp.replaced = 1

\* C3: the effect of one replace on the primary store matches its status:
\* after inserted or replaced the value at k is new, after deleted k is
\* absent, after skipped or unchanged the value at k is what it was, and no
\* other key's value changes.
C3_StoreEffect ==
    call.op = "rdb_replace" =>
        /\ (out_resp.inserted = 1 \/ out_resp.replaced = 1) =>
              /\ store[call.key] # NoValue
              /\ get_data(store[call.key]) = NewVal
        /\ out_resp.deleted = 1 => store[call.key] = NoValue
        /\ (out_resp.skipped = 1 \/ out_resp.unchanged = 1) =>
              store[call.key] = prev_store[call.key]
        /\ \A k \in StoreKeys \ {call.key} : store[k] = prev_store[k]

\* An insert has written a key while another key holds a document.
C3_Witness ==
    /\ call.op = "rdb_replace"
    /\ out_resp.inserted = 1
    /\ store[call.key] # prev_store[call.key]
    /\ \E k \in StoreKeys \ {call.key} : store[k] # NoValue

\* A side of a modification info carries a document iff it carries bytes.
SideConsistent(side) == (side.first # NoDatum) <=> (side.second # NoValue)

\* C4: the modification info has the shape of the transition: inserted
\* leaves deleted empty and sets added to (new, non-empty bytes); deleted
\* sets deleted to (old, non-empty bytes) and leaves added empty; replaced
\* sets both; skipped, unchanged and every error leave both empty.  A side
\* carries a document iff it carries non-empty bytes.
C4_ModInfoShape ==
    call.op = "rdb_replace" =>
        /\ SideConsistent(out_info.deleted) /\ SideConsistent(out_info.added)
        /\ out_resp.inserted = 1 =>
              /\ out_info.deleted = NoSide
              /\ out_info.added.first = NewVal
              /\ out_info.added.second # NoValue
        /\ out_resp.deleted = 1 =>
              /\ out_info.deleted.first = OldVal
              /\ out_info.deleted.second # NoValue
              /\ out_info.added = NoSide
        /\ out_resp.replaced = 1 =>
              /\ out_info.deleted.first = OldVal
              /\ out_info.deleted.second # NoValue
              /\ out_info.added.first = NewVal
              /\ out_info.added.second # NoValue
        /\ (out_resp.skipped = 1 \/ out_resp.unchanged = 1
            \/ out_resp.errors > 0) => out_info = EmptyModInfo

\* A replaced transition has filled in both sides.
C4_Witness ==
    /\ call.op = "rdb_replace"
    /\ out_resp.replaced = 1
    /\ out_info.deleted.first # NoDatum
    /\ out_info.added.first # NoDatum

\* The replacer's datum fails validation: neither null nor an object, or an
\* object whose primary-key field does not equal the operation's key.
FailsValidation ==
    /\ ReplaceReturned
    /\ \/ NewVal.type \notin {"R_NULL", "R_OBJECT"}
       \/ NewVal.type = "R_OBJECT" /\ ~KeepsKey(call.key, NewVal)

\* C5: a replace that fails validation writes nothing: the value at k is
\* unchanged, the modification info is empty on both sides, no status
\* counter is recorded and the result carries an error entry.
C5_ValidationFailure ==
    FailsValidation =>
        /\ store = prev_store
        /\ out_info = EmptyModInfo
        /\ \A n \in StatusNames : out_resp[n] = 0
        /\ out_resp.errors = 1 /\ out_resp.first_error # ""

\* A replace of a stored document by an object with another primary key
\* has failed.
C5_Witness ==
    /\ FailsValidation
    /\ NewVal.type = "R_OBJECT"
    /\ prev_store[call.key] # NoValue
    /\ out_resp.errors = 1

(***************************************************************************)
(* Properties of rdb_delete and rdb_set.                                   *)
(***************************************************************************)

\* C7: rdb_delete on a key that is not present returns Missing, leaves the
\* store unchanged and the modification info empty, and completes normally.
C7_DeleteMissing ==
    (call.op = "rdb_delete" /\ prev_store[call.key] = NoValue) =>
        /\ out_result = "MISSING"
        /\ store = prev_store
        /\ out_info = EmptyModInfo
        /\ ~crashed

\* C8: rdb_delete on a key that is present returns Deleted, leaves the key
\* absent, and reports deleted = (prior document, its non-empty bytes) with
\* added empty.
C8_DeletePresent ==
    (call.op = "rdb_delete" /\ prev_store[call.key] # NoValue) =>
        /\ out_result = "DELETED"
        /\ ~crashed
        /\ store[call.key] = NoValue
        /\ out_info.deleted.first = get_data(prev_store[call.key])
        /\ out_info.deleted.second = prev_store[call.key]
        /\ out_info.deleted.second # NoValue
        /\ out_info.added = NoSide

\* rdb_delete has run on a key that held a document.
C8_Witness ==
    /\ call.op = "rdb_delete"
    /\ prev_store[call.key] # NoValue
    /\ out_result = "DELETED"

\* The last call was rdb_set with overwrite=false.
SetNoOverwrite == call.op = "rdb_set" /\ ~call.overwrite

\* A set with overwrite=false on a key that has a value changes nothing
\* and returns Duplicate.
C9_DuplicateKeepsValue ==
    (SetNoOverwrite /\ prev_store[call.key] # NoValue) =>
        /\ store = prev_store
        /\ out_result = "DUPLICATE"

\* set(k, d1, false) on an absent key directly followed by set(k, d2,
\* false): d1 is still stored and the second call returns Duplicate.
C9_TwoSets ==
    (/\ SetNoOverwrite /\ prev_store[call.key] = NoValue
     /\ call'.op = "rdb_set" /\ ~call'.overwrite /\ call'.key = call.key)
    => /\ store'[call.key] # NoValue
       /\ get_data(store'[call.key]) = call.data
       /\ out_result' = "DUPLICATE"

\* C9: set(k, d1, overwrite=false) on an absent key followed by set(k, d2,
\* overwrite=false) leaves d1 stored at k and the second call returns
\* Duplicate; a set with overwrite=false on a key that has a value never
\* changes the stored value.
C9_SetNoOverwrite == [](C9_DuplicateKeepsValue) /\ [][C9_TwoSets]_vars

\* A second set with overwrite=false and a different document has run on
\* a key that held a document.
C9_Witness ==
    /\ SetNoOverwrite
    /\ prev_store[call.key] # NoValue
    /\ call.data # get_data(prev_store[call.key])
    /\ out_result = "DUPLICATE"

\* C10: rdb_set with overwrite=false on a key that has a value reports no
\* modification: no deleted document, no added document, no raw bytes.
C10_DuplicateReportsNothing ==
    (SetNoOverwrite /\ prev_store[call.key] # NoValue) =>
        out_info = EmptyModInfo

\* C11: when rdb_set writes (the key is absent, or overwrite is true) the
\* value stored at k afterwards is the given document, added is (the new
\* document, its non-empty raw bytes), and deleted is (the prior document,
\* its raw bytes) if a value existed and empty if none did.
C11_SetWrites ==
    (call.op = "rdb_set"
     /\ (call.overwrite \/ prev_store[call.key] = NoValue)) =>
        /\ ~crashed
        /\ store[call.key] # NoValue
        /\ get_data(store[call.key]) = call.data
        /\ out_info.added.first = call.data
        /\ out_info.added.second = store[call.key]
        /\ out_info.added.second # NoValue
        /\ IF prev_store[call.key] # NoValue
           THEN /\ out_info.deleted.first = get_data(prev_store[call.key])
                /\ out_info.deleted.second = prev_store[call.key]
           ELSE out_info.deleted = NoSide

\* A set with overwrite=true has replaced a stored document by a different
\* one.
C11_Witness ==
    /\ call.op = "rdb_set" /\ call.overwrite
    /\ prev_store[call.key] # NoValue
    /\ store[call.key] # prev_store[call.key]
    /\ out_info.deleted.first # NoDatum

\* C12: rdb_set returns Duplicate exactly when a value already existed and
\* overwrite is false; every call that writes the slot (key absent, or
\* overwrite true) returns Stored.
C12_SetResult ==
    call.op = "rdb_set" =>
        /\ out_result = "DUPLICATE" <=>
              (prev_store[call.key] # NoValue /\ ~call.overwrite)
        /\ (call.overwrite \/ prev_store[call.key] = NoValue) =>
              out_result = "STORED"

(***************************************************************************)
(* Properties of rdb_batched_replace.                                      *)
(***************************************************************************)

\* C1: the modification reports of a batched replace are handed to
\* on_mod_report in submission order in every interleaving: the n-th report
\* pushed and the n-th report applied are those of position n, and a report
\* is handed over only when the application of every earlier position's
\* report has completed.
C1_ReportsInSubmissionOrder ==
    /\ \A n \in 1..Len(sindex_queue) : sindex_queue[n].pos = n
    /\ \A n \in 1..Len(applied) : applied[n] = n
    /\ \A i \in Positions :
          pc[i] \in {"reporting", "done"} =>
              \A j \in 1..(i - 1) : pc[j] = "done"

\* The batch has returned with every report applied, and the positions
\* finished evaluating in the reverse of the submission order.
C1_Witness ==
    /\ coord.pc = "returned"
    /\ Len(applied) = BatchLen
    /\ Len(merge_order) = BatchLen
    /\ \A n \in Positions : merge_order[n] = BatchLen + 1 - n

\* The replacer's behaviour r makes the replace on key fail: it throws, is
\* interrupted, or returns a datum that fails validation.
Fails(key, r) ==
    \/ r.kind \in {"throw", "interrupted"}
    \/ /\ r.kind = "return"
       /\ \/ r.val.type \notin {"R_NULL", "R_OBJECT"}
          \/ r.val.type = "R_OBJECT" /\ ~KeepsKey(key, r.val)

\* res is an error entry and nothing else.
ErrorEntryOnly(r) ==
    /\ r.errors = 1 /\ r.first_error # ""
    /\ \A n \in StatusNames : r[n] = 0

\* res records exactly the status name, with count 1, and no error.
StatusOnly(r, name) ==
    /\ r[name] = 1 /\ r.errors = 0
    /\ \A n \in StatusNames \ {name} : r[n] = 0

\* The table left by the first n positions when each failing position is
\* skipped and each other position stores what its replacer returned.
RECURSIVE SiblingStore(_)
SiblingStore(n) ==
    IF n = 0
    THEN prev_store
    ELSE LET s == SiblingStore(n - 1)
         IN  IF Fails(keys[n], fn[n])
             THEN s
             ELSE [s EXCEPT ![keys[n]] =
                      IF fn[n].val.type = "R_NULL" THEN NoValue
                      ELSE Encode(fn[n].val)]

\* The document position i found at its key: null when absent.
OldValOf(i) ==
    IF old_value[i] = NoValue THEN NullDatum ELSE get_data(old_value[i])

\* C6: in a batched replace a failure of one key (evaluation error,
\* validation error, interruption) becomes an error entry of that key and
\* aborts nothing: no coroutine brings the batch down, a failing position
\* writes and reports nothing, every other position gets the status of its
\* own (old, new), and when the batch returns every position has been
\* evaluated, reported and merged, and the table is the one the positions
\* that did not fail produce.
C6_FailureStaysLocal ==
    /\ ~crashed
    /\ \A i \in Positions :
          pc[i] \in {"evaluated", "reporting", "done"} =>
              IF Fails(keys[i], fn[i])
              THEN /\ ErrorEntryOnly(res[i])
                   /\ mod_report[i] = EmptyModInfo
              ELSE StatusOnly(res[i], TableOutcome(OldValOf(i), fn[i].val))
    /\ coord.pc = "returned" =>
          /\ \A i \in Positions : pc[i] = "done"
          /\ \A i \in Positions :
                /\ old_value[i] = SiblingStore(i - 1)[keys[i]]
                /\ ~Fails(keys[i], fn[i]) =>
                      /\ \E n \in 1..Len(applied) : applied[n] = i
                      /\ \E n \in 1..Len(sindex_queue) :
                            /\ sindex_queue[n].pos = i
                            /\ sindex_queue[n].primary_key = keys[i]
                            /\ sindex_queue[n].info = mod_report[i]
          /\ store = SiblingStore(BatchLen)
          /\ stats.errors =
                Cardinality({i \in Positions : Fails(keys[i], fn[i])})

\* The batch has returned; its first position was interrupted and a later
\* position has written its key.
C6_Witness ==
    /\ coord.pc = "returned"
    /\ fn[1] = ThrowsInterrupted
    /\ \E j \in 2..BatchLen :
          /\ ~Fails(keys[j], fn[j])
          /\ res[j].inserted + res[j].replaced = 1
          /\ store[keys[j]] # prev_store[keys[j]]

\* The merge of the per-key results of the positions of seq, in that order.
RECURSIVE MergeOf(_)
MergeOf(seq) ==
    IF seq = <<>>
    THEN EmptyResp
    ELSE stats_merge(MergeOf(SubSeq(seq, 1, Len(seq) - 1)),
                     res[seq[Len(seq)]])

\* The positions of the batch in submission order.
SubmissionOrder == [n \in Positions |-> n]

\* The positions whose evaluation has finished.
Evaluated == {i \in Positions : pc[i] \in {"evaluated", "reporting", "done"}}

\* C19 as stated: the per-status counters are merged into the aggregate in
\* submission order whichever evaluation finishes first: the counters of
\* key i+1 are never merged before those of key i.
C19_MergedInSubmissionOrder ==
    \A n \in 1..Len(merge_order) : merge_order[n] = n

\* C19: the counters of a key are merged into the aggregate when its own
\* evaluation finishes, before it waits for its turn: the merges follow the
\* order in which evaluations finish, the aggregate always holds exactly
\* the counters of the positions evaluated so far, each once, and a
\* position whose report is handed on has been merged.
C19_MergedOnEvaluation ==
    /\ {merge_order[n] : n \in 1..Len(merge_order)} = Evaluated
    /\ Len(merge_order) = Cardinality(Evaluated)
    /\ stats = MergeOf(merge_order)

\* The second position has been merged while the first one has not yet
\* been evaluated.
C19_Witness ==
    /\ merge_order = <<2>>
    /\ pc[1] \in {"descending", "located"}
    /\ stats # EmptyResp

\* The sum of the status counters and the number of errors of a result.
Tally(r) ==
    r.skipped + r.inserted + r.deleted + r.replaced + r.unchanged + r.errors

\* C20: the aggregate result of a batched replace over N keys is the merge
\* of all N per-key results and is the same in every interleaving: it is
\* the merge in submission order whatever the order of the merges was, and
\* skipped + inserted + deleted + replaced + unchanged + errors = N.
C20_AggregateIsMergeOfAll ==
    coord.pc = "returned" =>
        /\ stats = MergeOf(SubmissionOrder)
        /\ Tally(stats) = BatchLen
        /\ \A i \in Positions : Tally(res[i]) = 1

\* The batch has returned after merging a later position first, with an
\* error and a write among its results.
C20_Witness ==
    /\ coord.pc = "returned"
    /\ merge_order[1] # 1
    /\ stats.errors >= 1
    /\ stats.inserted + stats.replaced + stats.deleted >= 1

(***************************************************************************)
(* Properties of the secondary index maintenance.                          *)
(***************************************************************************)

\* The index keys of the deleted and of the added document of the report
\* under the function of index x.
DeletedKeys(x) ==
    LET ops == delete_ops(x, mapping[x], report)
    IN  {ops[i].key : i \in 1..Len(ops)}

AddedKeys(x) ==
    LET ops == set_ops(x, mapping[x], report)
    IN  {ops[i].key : i \in 1..Len(ops)}

\* rdb_update_single_sindex has applied the report to index x.
Applied(x) ==
    \/ update[x].pc = "done"
    \/ updating = "none" /\ report # NoReport /\ x \in post_constructed

\* C13: once a report with deleted = D and added = A for the same primary
\* key has been applied to one index and D and A derive the same index key,
\* the index has an entry at that key and it holds the raw bytes of A; and
\* within one index every key of the deleted document has been visited
\* before the first entry of the added document is set.
C13_SameKeyDeleteThenInsert ==
    \A x \in Sindexes :
        /\ Applied(x) =>
              \A key \in DeletedKeys(x) \cap AddedKeys(x) :
                  /\ sindex[x][key] # NoValue
                  /\ sindex[x][key] = report.info.added.second
        /\ \A n \in 1..Len(update_log[x]) :
              update_log[x][n].op = "set" =>
                  /\ \A key \in DeletedKeys(x) :
                        \E m \in 1..(n - 1) :
                            /\ update_log[x][m].op = "delete"
                            /\ update_log[x][m].key = key
                  /\ \A m \in (n + 1)..Len(update_log[x]) :
                        update_log[x][m].op = "set"

\* A replace of a document by a different one with the same index key has
\* been applied to an index: the entry was deleted and set again.
C13_Witness ==
    \E x \in Sindexes :
        /\ update[x].pc = "done"
        /\ report.info.deleted.first # NoDatum
        /\ report.info.added.first # NoDatum
        /\ report.info.deleted.first # report.info.added.first
        /\ DeletedKeys(x) = AddedKeys(x)
        /\ DeletedKeys(x) # {}
        /\ Len(update_log[x]) = 2 * Cardinality(DeletedKeys(x))

(***************************************************************************)
(* Properties of post-construction.                                        *)
(***************************************************************************)

\* The keys of index x that hold an entry.
Entries(x) == {key \in SindexKeys : sindex[x][key] # NoValue}

\* The value of the function of index x on the document stored at k.
IndexValueAt(x, k) == mapping[x][get_data(store[k]).body]

\* The function of index x fails on no document of the table.
NonFailing(x) == \A k \in KeysOf(store) : IndexValueAt(x, k) # IndexThrows

\* The function of index x gives different documents of the table different
\* values.
Injective(x) ==
    \A k1, k2 \in KeysOf(store) :
        store[k1] # store[k2] => IndexValueAt(x, k1) # IndexValueAt(x, k2)

\* The function of index x gives every document of the table one index
\* key: the index is not multi, or no value is an array.
SingleKeyed(x) ==
    multi(x) => \A k \in KeysOf(store) : IndexValueAt(x, k).type # "R_ARRAY"

\* The post-construction ran to completion, and no write came in between.
PostConstructedAlone == pcons.pc = "done" /\ sindex_queue = <<>>

\* Index x has exactly one entry per document of the table, and the entry
\* holds the raw bytes of the document.
OneEntryPerDocument(x) ==
    /\ Cardinality(Entries(x)) = Cardinality(KeysOf(store))
    /\ \A k \in KeysOf(store) :
          \E key \in Entries(x) :
              extract_primary(key) = k /\ sindex[x][key] = store[k]

\* While post-construction applies a report, the report has an added side
\* only and only sets entries.
PostConstructOnlyAdds ==
    updating = "process_a_leaf" =>
        /\ report.info.deleted = NoSide
        /\ report.info.added.first # NoDatum
        /\ report.info.added.second # NoValue
        /\ cleared = <<>>
        /\ \A x \in Sindexes : \A n \in 1..Len(update_log[x]) :
              update_log[x][n].op = "set"

\* A step of post-construction removes no index entry and clears no blob.
PostConstructKeepsEntries ==
    updating = "process_a_leaf" =>
        /\ cleared' = cleared
        /\ \A x \in Sindexes : \A key \in SindexKeys :
              sindex[x][key] # NoValue => sindex'[x][key] # NoValue

\* C18 as stated: for every injective, non-failing index function the
\* finished index has exactly M entries, one per document.
C18_AsStated ==
    /\ [](PostConstructedAlone =>
             \A x \in ToPostConstruct :
                 (Injective(x) /\ NonFailing(x)) => OneEntryPerDocument(x))
    /\ [](PostConstructOnlyAdds)
    /\ [][PostConstructKeepsEntries]_vars

\* C18: post-construction of an index whose function is injective, does not
\* fail and gives one index key per document, run to completion over a
\* table of M documents without interruption and without concurrent writes,
\* leaves the index with exactly M entries, one per document, each holding
\* the raw bytes of its document; post-construction only inserts: its
\* reports carry the added side only, it deletes no index entry and clears
\* no blob.
C18_PostConstruction ==
    /\ [](PostConstructedAlone =>
             \A x \in ToPostConstruct :
                 (Injective(x) /\ NonFailing(x) /\ SingleKeyed(x)) =>
                     OneEntryPerDocument(x))
    /\ [](PostConstructOnlyAdds)
    /\ [][PostConstructKeepsEntries]_vars

\* Post-construction of both indexes has finished over a table of two
\* different documents, alone, with functions that give each document one
\* key.
C18_Witness ==
    /\ PostConstructedAlone
    /\ ToPostConstruct = Sindexes
    /\ Cardinality(KeysOf(store)) >= 2
    /\ \A x \in Sindexes :
          /\ Injective(x) /\ NonFailing(x) /\ SingleKeyed(x)
          /\ Cardinality(Entries(x)) >= 2
    /\ \E k1, k2 \in KeysOf(store) :
          get_data(store[k1]).body # get_data(store[k2]).body

(***************************************************************************)
(* Properties of rdb_erase_range.                                          *)
(***************************************************************************)

\* rdb_erase_range has returned and the interruptor was never pulsed.
EraseCompleted == erase.pc = "returned" /\ ~erase.interruptor

\* The keys of the range of the erase.
InRange(k) == contains_key(erase.key_range, k)

\* The entries index x had when rdb_erase_range was called.
EntriesBefore(x) ==
    {key \in SindexKeys : IndexOf(prev_store, x, mapping[x])[key] # NoValue}

\* After the erase no post-constructed index has an entry whose embedded
\* primary key lies in the range or is absent from the primary tree, and
\* every entry whose embedded primary key lies outside the range is still
\* there: the entries were selected by the primary key they embed.
IndexesErased ==
    \A x \in post_constructed :
        /\ \A key \in Entries(x) :
              /\ ~InRange(extract_primary(key))
              /\ store[extract_primary(key)] # NoValue
        /\ \A key \in EntriesBefore(x) :
              ~InRange(extract_primary(key)) =>
                  sindex[x][key] = prev_store[extract_primary(key)]

\* C14 as stated: after an uninterrupted rdb_erase_range no primary
\* document with a key in the range remains, and the indexes are erased.
C14_AsStated ==
    EraseCompleted =>
        /\ \A k \in StoreKeys : InRange(k) => store[k] = NoValue
        /\ IndexesErased

\* C14: after rdb_erase_range over a non-empty range [lo, hi) completes
\* without interruption, no primary document whose key lies in the range
\* and is accepted by the caller's key tester remains, no index entry whose
\* embedded primary key lies in the range remains in any post-constructed
\* index, and no such index entry refers to an absent primary key; index
\* entries are selected by the primary key recovered from the index key.
C14_RangeErased ==
    EraseCompleted =>
        /\ \A k \in StoreKeys :
              (InRange(k) /\ k \in erase.tester) => store[k] = NoValue
        /\ \A k \in StoreKeys :
              ~(InRange(k) /\ k \in erase.tester) => store[k] = prev_store[k]
        /\ IndexesErased

\* An uninterrupted erase has removed a document and its entries from a
\* post-constructed index and has left a document outside the range with
\* its entries.
C14_Witness ==
    /\ EraseCompleted
    /\ store # prev_store
    /\ \E x \in post_constructed :
          /\ Entries(x) # {}
          /\ Entries(x) # EntriesBefore(x)

\* C15: the erase of the primary range starts only after the erase task of
\* every secondary index has finished: no primary document is removed, and
\* the primary erase is not under way, while a sindex_erase_range coroutine
\* is running or has not started.
C15_SindexesErasedFirst ==
    (erase.pc \in {"erasing", "returned", "interrupted"}
     \/ store # prev_store) =>
        /\ \A x \in Sindexes : sindex_erase[x].pc \in {"idle", "done"}
        /\ \A x \in post_constructed : sindex_erase[x].pc = "done"

\* A primary document has been removed after the coroutines of both
\* indexes erased entries.
C15_Witness ==
    /\ store # prev_store
    /\ post_constructed = Sindexes
    /\ \A x \in Sindexes :
          /\ sindex_erase[x].pc = "done"
          /\ Entries(x) # EntriesBefore(x)

(***************************************************************************)
(* Properties of the range scan.                                           *)
(***************************************************************************)

\* The rows the transform of the scan yields for the document at key k.
RowsAt(k) == apply_transforms(scan.args.transform, <<get_data(store[k])>>)

ItemsAt(k) ==
    [i \in 1..Len(RowsAt(k).out) |-> rget_item(k, RowsAt(k).out[i])]

\* The rows of every key of a sequence of keys, in its order.
RECURSIVE ItemsOf(_)
ItemsOf(order) ==
    IF order = <<>> THEN <<>> ELSE ItemsAt(Head(order)) \o ItemsOf(Tail(order))

\* The documents of the range of the scan that match: the transform yields
\* a row for them.
MatchingKeys ==
    {k \in StoreKeys :
        /\ \E i \in 1..Len(scan.order) : scan.order[i] = k
        /\ RowsAt(k).out # <<>>}

\* A scan without a terminal has returned and its transform fails on no
\* document of the range.
StreamReturned ==
    /\ scan.pc = "returned"
    /\ scan.args.terminal = NoTerminal
    /\ \A i \in 1..Len(scan.order) : ~RowsAt(scan.order[i]).threw

\* Every document of the range yields at most one row.
OneRowEach == \A i \in 1..Len(scan.order) : Len(ItemsAt(scan.order[i])) <= 1

\* The rows of the keys of order up to the first key at which the rows
\* reach the budget.
RECURSIVE UpToBudget(_, _)
UpToBudget(order, budget) ==
    IF order = <<>> \/ budget <= 0
    THEN <<>>
    ELSE ItemsAt(Head(order))
            \o UpToBudget(Tail(order), budget - Len(ItemsAt(Head(order))))

\* C16 as the claim words it: a scan without a terminal over more than B
\* matching documents returns exactly B rows and truncated, and a scan over
\* fewer than B matching documents returns not truncated.
C16_AsStated ==
    StreamReturned =>
        /\ Cardinality(MatchingKeys) > scan.args.budget =>
              /\ Len(response.result.rows) = scan.args.budget
              /\ response.truncated
        /\ Cardinality(MatchingKeys) < scan.args.budget =>
              ~response.truncated

\* C16: a scan without a terminal returns the rows of the keys of its range
\* up to the first key at which the rows appended reach the budget B, all
\* the rows of that key included, and reports truncated exactly when the
\* rows reached B; when every document yields at most one row and more than
\* B documents match, these are exactly B rows, and when fewer than B rows
\* are to be had the scan returns them all and is not truncated.
C16_StopsAtBudget ==
    StreamReturned =>
        /\ response.result = Stream(UpToBudget(scan.order, scan.args.budget))
        /\ response.truncated
              <=> Len(response.result.rows) >= scan.args.budget
        /\ OneRowEach /\ Cardinality(MatchingKeys) > scan.args.budget =>
              /\ Len(response.result.rows) = scan.args.budget
              /\ response.truncated
        /\ Len(ItemsOf(scan.order)) < scan.args.budget =>
              /\ response.result.rows = ItemsOf(scan.order)
              /\ ~response.truncated

\* A scan over more matching documents than its budget, one row each, has
\* returned truncated with a document of the range left out, and the
\* coroutine of a later key was waiting at the gate when it stopped.
C16_Witness ==
    /\ StreamReturned
    /\ OneRowEach
    /\ Cardinality(MatchingKeys) > scan.args.budget
    /\ Len(response.result.rows) = scan.args.budget
    /\ response.truncated
    /\ \E k \in StoreKeys : handle[k] = "interrupted"

\* The keys the read of scan.first_range visits, in the order of its
\* sorting.
FirstOrder ==
    traversal_order(store, scan.first_range,
        IF ~reversed(scan.args.sorting) THEN "FORWARD" ELSE "BACKWARD")

\* The keys of the read up to and including last_considered_key, in the
\* direction of the scan.
Considered ==
    SelectSeq(FirstOrder,
        LAMBDA k : IF ~reversed(scan.args.sorting)
                   THEN position(k) <= response.last_considered_key
                   ELSE position(k) >= response.last_considered_key)

\* The rows of the batches returned so far, one batch after the other.
RECURSIVE RowsOfBatches(_)
RowsOfBatches(bs) ==
    IF bs = <<>> THEN <<>> ELSE Head(bs).result.rows \o RowsOfBatches(Tail(bs))

\* C17: when a scan without a terminal returns truncated,
\* last_considered_key is the key of the last row of its stream and the
\* batches returned so far hold the rows of every key up to it, each once
\* and in order; so when the scan resumed strictly after it returns the
\* rest, the batches together hold the rows of every key of the range, none
\* missing and none twice.
C17_ResumeWithoutGap ==
    scan.pc = "returned" /\ scan.args.terminal = NoTerminal =>
        /\ response.truncated =>
              /\ response.result.rows # <<>>
              /\ response.last_considered_key =
                    position(response.result.rows[
                        Len(response.result.rows)].key)
              /\ RowsOfBatches(batches) = ItemsOf(Considered)
        /\ ~response.truncated /\ response.result.kind = "stream" =>
              RowsOfBatches(batches) = ItemsOf(FirstOrder)
        /\ \A i \in 1..(Len(batches) - 1) : batches[i].truncated

\* A second scan, resumed after a truncated first one, has returned the
\* rest of a range in which every key holds a document.
C17_Witness ==
    /\ scan.pc = "returned"
    /\ scan.args.terminal = NoTerminal
    /\ Len(batches) = 2
    /\ batches[1].truncated
    /\ batches[1].result.rows # <<>>
    /\ batches[2].result.rows # <<>>
    /\ Len(FirstOrder) = NumKeys
    /\ RowsOfBatches(batches) = ItemsOf(FirstOrder)

(***************************************************************************)
(* Properties of the reports of a batched replace.                         *)
(***************************************************************************)

\* C21: in a batched replace on_mod_report is invoked, and a change is
\* pushed onto the sindex queue, only for the keys whose replace inserted,
\* deleted or replaced a document: a coroutine inside on_mod_report has a
\* report with a deleted or an added side, and so has every change of the
\* queue.
C21_OnlyModificationsReported ==
    /\ \A i \in Positions :
          pc[i] = "reporting" => mod_report[i] # EmptyModInfo
    /\ \A n \in 1..Len(sindex_queue) :
          sindex_queue[n].info # EmptyModInfo

\* The replacer was interrupted at position i.
Interrupted(i) ==
    pc[i] \in {"evaluated", "reporting", "done"} /\ fn[i] = ThrowsInterrupted

\* C22 as the claim words it: when a key of the batch was interrupted, the
\* batch returns the interruption alone, without the counters of the keys
\* that completed and told apart from every other error.
C22_AsStated ==
    coord.pc = "returned" /\ (\E i \in Positions : Interrupted(i)) =>
        /\ \A n \in StatusNames : stats[n] = 0
        /\ stats.first_error = "interrupted"

\* A step that changes the slot of a key is the replace of a position of
\* that key, and its report carries the bytes it removed and the bytes it
\* wrote.
SlotChangesAreReported ==
    \A k \in StoreKeys :
        store'[k] # store[k] =>
            \E i \in Positions :
                /\ keys[i] = k
                /\ pc[i] = "located" /\ pc'[i] = "evaluated"
                /\ mod_report'[i].deleted.second = store[k]
                /\ mod_report'[i].added.second = store'[k]

\* C22: an interruption of the replace of one key is caught there and
\* becomes an error entry "interrupted" of that key, which leaves the slot
\* and the report of the key empty-handed; the batch goes on and returns
\* the merge of all per-key results, the counters of the completed keys and
\* the error entries together; and no slot is ever changed without the
\* report of its position carrying the change, which is handed to
\* on_mod_report before the batch returns.
C22_InterruptedIsAnErrorEntry ==
    /\ [](/\ \A i \in Positions :
                Interrupted(i) =>
                    /\ res[i] = add_error(EmptyResp, "interrupted")
                    /\ mod_report[i] = EmptyModInfo
          /\ coord.pc = "returned" =>
                /\ stats = MergeOf(SubmissionOrder)
                /\ \A i \in Positions :
                      \E n \in 1..Len(sindex_queue) :
                          /\ sindex_queue[n].pos = i
                          /\ sindex_queue[n].info = mod_report[i])
    /\ [][SlotChangesAreReported]_vars

\* The batch has returned after the interruption of its last position, and
\* the aggregate holds the counter of an earlier position that wrote next
\* to the error entry.
C22_Witness ==
    /\ coord.pc = "returned"
    /\ Interrupted(BatchLen)
    /\ stats.errors = 1
    /\ stats.inserted + stats.replaced + stats.deleted >= 1
    /\ store # prev_store

\* Who owns the superblock, by where the coordinator and the coroutines
\* stand: the coordinator (0) from the return of the promise to the next
\* spawn, a coroutine from its spawn until it pulses its promise.
Owners ==
    {i \in Positions : pc[i] = "spawned"}
        \cup (IF coord.pc \in {"spawn", "release"} THEN {0} ELSE {})

\* C23: in rdb_batched_replace the superblock has at most one owner at any
\* time and is handed from key to key: the coroutine of key i+1 is spawned
\* only after the coroutine of key i has taken the superblock and given it
\* back through its promise, and while a spawned coroutine holds it the
\* coordinator holds none and waits.
C23_SuperblockHandedOver ==
    /\ Cardinality(Owners) <= 1
    /\ \A i \in 1..(BatchLen - 1) :
          pc[i + 1] # "unspawned" => pc[i] \notin {"unspawned", "spawned"}
    /\ \A i \in Positions :
          pc[i] = "spawned" =>
              /\ coord = [pc |-> "wait", i |-> i]
              /\ superblock = [holder |-> "task", task |-> i]
    /\ superblock.holder = "coordinator" <=> 0 \in Owners

\* The coroutine of the second key holds the superblock while the
\* coroutine of the first key, which gave it back, is still at work.
C23_Witness ==
    /\ pc[2] = "spawned"
    /\ pc[1] \in {"descending", "located", "evaluated"}
    /\ superblock = [holder |-> "task", task |-> 2]

(***************************************************************************)
(* Properties of the application of one report to one index.               *)
(***************************************************************************)

\* The visits of index x for the report so far that carry the operation op.
Visits(x, op) == SelectSeq(update_log[x], LAMBDA v : v.op = op)

\* rdb_update_single_sindex of index x is past its deleted side.
DeletedSideDone(x) ==
    /\ update[x].pc \in {"running", "done"}
    /\ Len(Visits(x, "delete")) = Len(delete_ops(x, mapping[x], report))

\* The step is a key visit of the coroutine of index x.
VisitOf(x) ==
    /\ update[x].pc = "running"
    /\ Len(update_log'[x]) = Len(update_log[x]) + 1

\* A step removes an entry of an index only as the visit of the deleted
\* side at that key.
OnlyDeletedKeysRemoved ==
    \A x \in Sindexes : \A key \in SindexKeys :
        sindex[x][key] # NoValue /\ sindex'[x][key] = NoValue =>
            /\ VisitOf(x)
            /\ key \in DeletedKeys(x)
            /\ Head(update[x].todo) = [op |-> "delete", key |-> key]

\* A visit of the deleted side that finds no entry changes no index and
\* goes on to the next key.
AbsentEntryTolerated ==
    \A x \in Sindexes :
        (/\ VisitOf(x)
         /\ Head(update[x].todo).op = "delete"
         /\ sindex[x][Head(update[x].todo).key] = NoValue) =>
            /\ sindex' = sindex
            /\ crashed' = crashed
            /\ update'[x].todo = Tail(update[x].todo)

\* C24: applying the deleted side of a report to one index removes the
\* entry at every key derived from the deleted document and no other entry,
\* and a derived key without an entry leaves the index as it is and the
\* remaining keys are still visited.
C24_DeletedSide ==
    /\ [](\A x \in Sindexes :
             DeletedSideDone(x) =>
                 \A key \in DeletedKeys(x) :
                     (\A n \in 1..Len(update_log[x]) :
                          ~(update_log[x][n].op = "set"
                            /\ update_log[x][n].key = key))
                         => sindex[x][key] = NoValue)
    /\ [][OnlyDeletedKeysRemoved /\ AbsentEntryTolerated]_vars

\* The deleted side of a multi index has visited its two keys although the
\* first had no entry, and the entries of another document are still there.
C24_Witness ==
    \E x \in Sindexes :
        /\ DeletedSideDone(x)
        /\ update[x].pc = "done"
        /\ Len(Visits(x, "delete")) = 2
        /\ Visits(x, "delete")[1].found = NoValue
        /\ \E key \in SindexKeys :
              /\ extract_primary(key) # report.primary_key
              /\ sindex[x][key] # NoValue

\* rdb_update_single_sindex of index x is past its added side.
AddedSideDone(x) == update[x].pc = "done"

\* C25: applying the added side of a report to one index leaves, at every
\* index key derived from the added document, an entry that holds the raw
\* bytes of the added side of the report, which are the bytes of the
\* primary slot, whatever entry the key held before.
C25_AddedSide ==
    \A x \in Sindexes :
        /\ AddedSideDone(x) =>
              \A key \in AddedKeys(x) :
                  /\ sindex[x][key] # NoValue
                  /\ sindex[x][key] = report.info.added.second
                  /\ sindex[x][key] = store[report.primary_key]
        /\ \A n \in 1..Len(update_log[x]) :
              update_log[x][n].op = "set" =>
                  sindex[x][update_log[x][n].key] = report.info.added.second

\* The added side has set its two keys, one of which held the bytes of
\* another document before.
C25_Witness ==
    \E x \in Sindexes :
        /\ AddedSideDone(x)
        /\ Cardinality(AddedKeys(x)) = 2
        /\ \E n \in 1..Len(update_log[x]) :
              /\ update_log[x][n].op = "set"
              /\ update_log[x][n].found # NoValue
              /\ update_log[x][n].found # report.info.added.second
              /\ sindex[x][update_log[x][n].key] = report.info.added.second

\* C26: in rdb_update_sindexes the indirect storage of the deleted value
\* is cleared exactly once for a report that has a deleted document, after
\* the update coroutine of every index has made all its key visits; it is
\* not cleared while rdb_update_sindexes has coroutines at work, and never
\* for a report without a deleted document.
C26_BlobClearedOnceAtTheEnd ==
    /\ updating # "none" => cleared = <<>>
    /\ updating = "none" /\ report # NoReport =>
          /\ cleared = IF report.info.deleted.first # NoDatum
                       THEN <<report.info.deleted.second>>
                       ELSE <<>>
          /\ \A x \in post_constructed :
                Len(update_log[x]) =
                    Len(rdb_update_single_sindex(x, mapping[x], report))

\* The blob of a replaced document has been cleared after both indexes
\* made their visits for the report.
C26_Witness ==
    /\ updating = "none"
    /\ cleared # <<>>
    /\ report.info.added.first # NoDatum
    /\ post_constructed = Sindexes
    /\ \A x \in Sindexes : Len(update_log[x]) >= 2

\* The value of the function of index x on the added document of the
\* report.
AddedIndexValue(x) == mapping[x][report.info.added.first.body]

\* The keys of the set visits of index x for the report, in their order.
KeysSet(x) ==
    [n \in 1..Len(Visits(x, "set")) |-> Visits(x, "set")[n].key]

\* C27: for a multi index whose function returns an array of n elements
\* for a document, the keys derived are exactly n, the i-th made of element
\* i, the primary key and tag i (counted from 0), all different; for an
\* index that is not multi, or a result that is not an array, it is one key
\* without a tag, made of the whole result and the primary key.  These are
\* the keys the added side visits.
C27_KeyDerivation ==
    \A x \in Sindexes :
        (/\ AddedSideDone(x)
         /\ report.info.added.first # NoDatum
         /\ AddedIndexValue(x) # IndexThrows
         /\ printable(AddedIndexValue(x))) =>
            LET index == AddedIndexValue(x)
                n == Len(index.elems)
            IN  IF multi(x) /\ index.type = "R_ARRAY"
                THEN /\ Len(KeysSet(x)) = n
                     /\ \A i \in 1..n :
                           KeysSet(x)[i] =
                               print_secondary(IndexStr(index.elems[i]),
                                               report.primary_key, Tag(i - 1))
                     /\ \A i, j \in 1..n :
                           i # j => KeysSet(x)[i] # KeysSet(x)[j]
                ELSE KeysSet(x) =
                        <<print_secondary(index, report.primary_key, NoTag)>>

\* The same report has given the multi index two tagged keys for an array
\* of two equal elements and the other index one untagged key for the
\* whole array.
C27_Witness ==
    /\ post_constructed = Sindexes
    /\ \A x \in Sindexes : AddedSideDone(x)
    /\ report.info.added.first # NoDatum
    /\ AddedIndexValue("s2") = IndexArray(<<"y", "y">>)
    /\ Len(KeysSet("s2")) = 2
    /\ AddedIndexValue("s1") = IndexArray(<<"y", "y">>)
    /\ Len(KeysSet("s1")) = 1

\* The function of index x, or print_secondary, fails on the datum d.
DerivationFails(x, d) ==
    d # NoDatum /\ (mapping[x][d.body] = IndexThrows
                    \/ ~printable(mapping[x][d.body]))

\* The number of keys index x has for the datum d when nothing fails.
KeyCount(x, d) ==
    IF d = NoDatum THEN 0
    ELSE IF multi(x) /\ mapping[x][d.body].type = "R_ARRAY"
         THEN Len(mapping[x][d.body].elems)
         ELSE 1

\* C28: a derivation error while a report is applied to one index is
\* swallowed: nothing is brought down; when the deleted side fails no key
\* of it is visited and the added side is applied all the same; when the
\* added side fails no key of it is set, not even the keys of the array
\* elements before the failing one; a side that does not fail is applied in
\* full whatever the other side and the other index do, and the primary
\* slot holds what the replace wrote.
C28_DerivationErrorSwallowed ==
    /\ ~crashed
    /\ \A x \in Sindexes :
          AddedSideDone(x) =>
              /\ Len(Visits(x, "delete")) =
                    IF DerivationFails(x, report.info.deleted.first)
                    THEN 0
                    ELSE KeyCount(x, report.info.deleted.first)
              /\ Len(Visits(x, "set")) =
                    IF DerivationFails(x, report.info.added.first)
                    THEN 0
                    ELSE KeyCount(x, report.info.added.first)
    /\ updating # "none" /\ report.info # EmptyModInfo =>
          store[report.primary_key] = report.info.added.second

\* A document on which the function of the multi index fails at its second
\* array element was stored and then replaced: the multi index made no
\* delete visit and set the two keys of the new document, it holds no entry
\* of the failing document, and the other index replaced its entry.
C28_Witness ==
    /\ post_constructed = Sindexes
    /\ \A x \in Sindexes : AddedSideDone(x)
    /\ mapping["s2"] = ArrayWithNull
    /\ DerivationFails("s2", report.info.deleted.first)
    /\ ~DerivationFails("s1", report.info.deleted.first)
    /\ Visits("s2", "delete") = <<>>
    /\ Len(Visits("s2", "set")) = 2
    /\ Len(Visits("s1", "delete")) = 1
    /\ Len(Visits("s1", "set")) = 1
    /\ \A key \in SindexKeys :
          sindex["s2"][key] # report.info.deleted.second

\* The leading edge of the range of the scan: its start when forward, its
\* end, or the maximal key when unbounded, when backward.
LeadingEdge ==
    IF scan.args.sorting = "ASCENDING"
    THEN scan.range.left
    ELSE IF scan.range.unbounded THEN MaxKey ELSE scan.range.right

\* The keys whose handle_pair has passed the gate.
PastGate == {k \in StoreKeys : handle[k] = "done" /\ ~scan.bad_init}

\* A scan is under way or has returned.
Scanning == scan.pc \in {"traversing", "returned"}

\* last_considered_key moves in the direction of the scan, if it moves.
MovesInScanDirection ==
    IF scan.args.sorting = "ASCENDING"
    THEN response'.last_considered_key >= response.last_considered_key
    ELSE response'.last_considered_key <= response.last_considered_key

\* C29 as the claim words it: last_considered_key is at a key the scan has
\* handled only when the processing of that key succeeded.
C29_AsStated ==
    Scanning =>
        \A k \in PastGate :
            response.last_considered_key = position(k) =>
                response.result.kind \in {"stream", "terminal"}

\* C29: last_considered_key starts at the leading edge of the range and
\* only moves in the direction of the scan; it is advanced to a key as soon
\* as the key has passed the gate, before the transforms and the terminal
\* are evaluated on it, so it is the furthest key that has passed the gate,
\* also when the evaluation of that key then failed.
C29_LastConsideredKey ==
    /\ [](Scanning =>
            /\ PastGate = {} => response.last_considered_key = LeadingEdge
            /\ \A k \in PastGate :
                  IF scan.args.sorting = "ASCENDING"
                  THEN /\ position(k) <= response.last_considered_key
                       /\ LeadingEdge <= response.last_considered_key
                  ELSE /\ position(k) >= response.last_considered_key
                       /\ LeadingEdge >= response.last_considered_key
            /\ PastGate # {} =>
                  \E k \in PastGate :
                      response.last_considered_key = position(k))
    /\ [][Scanning => MovesInScanDirection]_vars

\* The transform has failed on the second key of a scan, and
\* last_considered_key is at that key.
C29_Witness ==
    /\ scan.pc = "returned"
    /\ Cardinality(PastGate) = 2
    /\ response.result.kind = "transform_exception"
    /\ \E k \in PastGate : response.last_considered_key = position(k)
    /\ response.last_considered_key # LeadingEdge

(***************************************************************************)
(* Properties of a scan of a secondary index.                              *)
(***************************************************************************)

\* The index keys whose primary key the primary key range of the scan
\* contains.
InPrimaryKeyRange ==
    {k \in DOMAIN handle :
        contains_key(scan.args.sindex.primary_key_range, extract_primary(k))}

\* The keys the scan has taken through the gate whose index value is in
\* the range of index values asked for.
Taken ==
    {k \in DOMAIN handle :
        /\ handle[k] = "done"
        /\ ~scan.bad_init
        /\ sindex_value_of(scan.args, k, get_data(scanned[k])).value
               \in scan.args.sindex.range}

\* Nothing in the response or the batcher comes from a key outside the
\* primary key range: every row of the stream, every datum the terminal
\* counted, every row the batcher noted and the key last considered belong
\* to keys of the primary key range.
NothingFromOutside ==
    (scan.args.sindex # NoSindex /\ Scanning) =>
        /\ \A k \in DOMAIN handle :
              handle[k] = "discarded" => k \notin InPrimaryKeyRange
        /\ \A i \in 1..Len(response.result.rows) :
              response.result.rows[i].key \in InPrimaryKeyRange
        /\ response.result.kind = "terminal" =>
              response.result.acc = Cardinality(Taken \cap InPrimaryKeyRange)
        /\ batcher.els_left =
              scan.args.budget
                  - IF scan.args.terminal = NoTerminal
                    THEN Cardinality(Taken \cap InPrimaryKeyRange)
                    ELSE 0
        /\ \/ response.last_considered_key = LeadingEdge
           \/ \E k \in InPrimaryKeyRange :
                 /\ handle[k] = "done"
                 /\ response.last_considered_key = position(k)

\* The step that discards a key changes nothing of the response, the
\* batcher or the traversal, which goes on.
DiscardLeavesNoTrace ==
    (\E k \in DOMAIN handle :
        handle[k] = "waiting" /\ handle'[k] = "discarded")
        => UNCHANGED <<response, batcher, scan>>

\* C30: in a scan of a secondary index a key whose primary key is outside
\* the primary key range of the caller is discarded without effect: no row
\* of the stream, nothing the terminal folded, nothing in the batcher and
\* no value of last_considered_key comes from it, and the step that
\* discards it leaves the traversal going.
C30_OutsidePrimaryRangeDiscarded ==
    []NothingFromOutside /\ [][DiscardLeavesNoTrace]_vars

\* A returned scan of a secondary index that discarded a key and then
\* appended the row of a later key, which is the key last considered.
C30_Witness ==
    /\ scan.args.sindex # NoSindex
    /\ scan.pc = "returned"
    /\ scan.args.terminal = NoTerminal
    /\ \E i, j \in 1..Len(scan.order) :
          /\ i < j
          /\ handle[scan.order[i]] = "discarded"
          /\ handle[scan.order[j]] = "done"
          /\ response.last_considered_key = position(scan.order[j])
          /\ \E n \in 1..Len(response.result.rows) :
                response.result.rows[n].key = scan.order[j]

(***************************************************************************)
(* Properties of the evaluation errors of a scan.                          *)
(***************************************************************************)

ErrorKinds == {"exc", "transform_exception", "terminal_exception"}

\* The error the evaluation of the document at key k ends in, "none" when
\* it ends in none: of the index function, of a stage of the transform or
\* of the terminal.
FailureAt(k) ==
    LET doc == get_data(scanned[k])
        sv == sindex_value_of(scan.args, k, doc)
        data == apply_transforms(scan.args.transform, <<doc>>)
    IN  IF sv.threw
        THEN "exc"
        ELSE IF scan.args.sindex # NoSindex
                   /\ sv.value \notin scan.args.sindex.range
        THEN "none"
        ELSE IF data.threw
        THEN "transform_exception"
        ELSE IF scan.args.terminal \in {"count", "reduce"}
                   /\ apply_terminal(scan.args.terminal, data.out,
                                     Accumulator(0)).threw
        THEN "terminal_exception"
        ELSE "none"

\* The keys handle_pair has taken through the gate.
PassedTheGate == {k \in DOMAIN handle : handle[k] = "done" /\ ~scan.bad_init}

\* The place of key k in the order of the traversal.
PlaceOf(k) == CHOOSE i \in 1..Len(scan.order) : scan.order[i] = k

\* The error is the result of the scan, the traversal has been told to
\* stop, and the failing key is the last one that was evaluated.
ErrorIsTheResult ==
    Scanning =>
        /\ ~crashed
        /\ scan.bad_init =>
              /\ response.result = Exception("terminal_exception")
              /\ \A k \in DOMAIN handle :
                    handle[k] = "done" => scan.failure_cond
        /\ ~scan.bad_init =>
              /\ response.result.kind \in ErrorKinds
                    <=> \E k \in PassedTheGate : FailureAt(k) # "none"
              /\ \A k \in PassedTheGate :
                    FailureAt(k) # "none" =>
                        /\ response.result = Exception(FailureAt(k))
                        /\ scan.failure_cond
                        /\ \A j \in PassedTheGate : PlaceOf(j) <= PlaceOf(k)

\* Once the result is an error, no step of the scan changes the response
\* or the batcher but to report the return.
NothingAfterTheError ==
    (response.result.kind \in ErrorKinds /\ scan.pc = "traversing")
        => /\ response'.result = response.result
           /\ response'.last_considered_key = response.last_considered_key
           /\ batcher' = batcher

\* C31: an evaluation error of a scan (of the initialisation, the index
\* function, a stage of the transform or the terminal) ends the scan with
\* the error as its result: the callback tells the traversal to stop, no
\* key after the failing one changes the result, and no guarantee fails.
C31_ErrorEndsTheScan ==
    []ErrorIsTheResult /\ [][NothingAfterTheError]_vars

\* A returned scan of an index whose function failed on the first key of
\* the traversal; the handle_pair of the second key was waiting at the gate
\* and was interrupted.
C31_Witness ==
    /\ scan.args.sindex # NoSindex
    /\ scan.pc = "returned"
    /\ response.result = Exception("exc")
    /\ Len(scan.order) >= 2
    /\ handle[scan.order[1]] = "done"
    /\ FailureAt(scan.order[1]) = "exc"
    /\ handle[scan.order[2]] = "interrupted"
    /\ response.last_considered_key = position(scan.order[1])

(***************************************************************************)
(* Properties of the order of the effects of a scan.                       *)
(***************************************************************************)

\* The rows of the stream are in the order of the traversal.
RowsInTraversalOrder ==
    (Scanning /\ response.result.kind = "stream") =>
        \A i, j \in 1..Len(response.result.rows) :
            i < j => PlaceOf(response.result.rows[i].key)
                        <= PlaceOf(response.result.rows[j].key)

\* A step of a traversal that changes the response or the batcher is the
\* handle_pair of a key whose predecessors in the order of the traversal
\* have all returned, and no key after it has had its effects.
EffectsBehindTheGate ==
    (/\ scan.pc = "traversing"
     /\ scan'.pc = "traversing"
     /\ response' # response \/ batcher' # batcher)
        => \E k \in DOMAIN handle :
              /\ handle[k] = "waiting"
              /\ handle'[k] = "done"
              /\ \A j \in Before(k) : handle[j] \notin {"none", "waiting"}
              /\ \A j \in DOMAIN handle :
                    k \in Before(j) => handle[j] # "done"

\* C32: every effect of a key of a scan (last_considered_key, the rows of
\* the stream, the terminal, a captured error) happens after the key has
\* passed the gate, so the effects come in the order of the traversal also
\* when several keys are being decoded at once, and the rows of the stream
\* are in the order of the traversal.
C32_EffectsInTraversalOrder ==
    []RowsInTraversalOrder /\ [][EffectsBehindTheGate]_vars

\* The second key of the traversal is decoded and waits at the gate, the
\* first has appended its row.
C32_Witness ==
    /\ scan.pc = "traversing"
    /\ Len(scan.order) = 2
    /\ handle[scan.order[1]] = "done"
    /\ handle[scan.order[2]] = "waiting"
    /\ response.result.kind = "stream"
    /\ \E n \in 1..Len(response.result.rows) :
          response.result.rows[n].key = scan.order[1]
    /\ response.last_considered_key = position(scan.order[1])

(***************************************************************************)
(* Properties of rdb_distribution_get.                                     *)
(***************************************************************************)

\* The buckets of the response: the left key and every split key.
Buckets == DOMAIN distribution.key_counts

\* C33: every bucket of the response of rdb_distribution_get (the left key
\* and each split key) has the same estimate, the total key count divided
\* by the number of buckets and at least 1, for every count from 0 on and
\* every number of split keys from 0 on.
C33_EvenEstimate ==
    distribution.pc = "returned" =>
        \A k \in Buckets :
            distribution.key_counts[k] =
                max(distribution.key_count_out \div Cardinality(Buckets), 1)

(***************************************************************************)
(* Properties of a batched replace and the secondary indexes.              *)
(***************************************************************************)

\* The primary keys the batch names.
Touched == {keys[i] : i \in Positions}

\* The entries of index x that carry a touched primary key are those of
\* the document the table holds at the key, with its raw bytes.
AgreesOnTouched(x) ==
    \A key \in SindexKeys :
        extract_primary(key) \in Touched =>
            sindex[x][key] = IndexOf(store, x, mapping[x])[key]

\* C34: once a batched replace has returned, every post-constructed index
\* agrees with the primary tree on every key the batch touched: the index
\* entries of the key are exactly the keys of the document now stored at
\* it (none if there is none), each holding its raw bytes; also when the
\* batch names a key more than once.
C34_IndexesAgreeAfterBatch ==
    (coord.pc = "returned" /\ ~crashed) =>
        \A x \in post_constructed : AgreesOnTouched(x)

\* A returned batch that names the same key twice and wrote two different
\* documents to it, the second of which the index now holds.
C34_Witness ==
    /\ coord.pc = "returned"
    /\ keys[1] = keys[2]
    /\ mod_report[1].added.first # NoDatum
    /\ mod_report[2].added.first # NoDatum
    /\ mod_report[2].deleted.first = mod_report[1].added.first
    /\ mod_report[2].added.first # mod_report[1].added.first
    /\ store[keys[1]] = mod_report[2].added.second
    /\ \E key \in SindexKeys :
          /\ extract_primary(key) = keys[1]
          /\ sindex["s2"][key] = store[keys[1]]

(***************************************************************************)
(* Properties of a batch that names a key more than once.                  *)
(***************************************************************************)

\* Position j has read the slot of its key.
Located(j) == pc[j] \in {"located", "evaluated", "reporting", "done"}

\* The slot position i left at its key: the bytes it wrote, nothing if it
\* deleted, and what it found if it wrote nothing.
LeftBy(i) ==
    IF mod_report[i].added.first # NoDatum
    THEN mod_report[i].added.second
    ELSE IF mod_report[i].deleted.first # NoDatum
         THEN NoValue
         ELSE old_value[i]

\* The positions before j that name the key of j.
EarlierSame(j) == {i \in 1..(j - 1) : keys[i] = keys[j]}

\* The last position before j that names the key of j.
Previous(j) == CHOOSE i \in EarlierSame(j) : \A h \in EarlierSame(j) : h <= i

\* Position j reads the slot only after the write of every earlier
\* position of the same key, and finds what the previous one left; at the
\* return the key holds what its last position left.
WritesInSubmissionOrder ==
    /\ \A j \in Positions :
          (Located(j) /\ EarlierSame(j) # {}) =>
              /\ \A i \in EarlierSame(j) : i \in Evaluated
              /\ old_value[j] = LeftBy(Previous(j))
    /\ (coord.pc = "returned" /\ ~crashed) =>
          \A j \in Positions :
              (\A h \in Positions : keys[h] = keys[j] => h <= j)
                  => store[keys[j]] = LeftBy(j)

\* The replacer of position j is called with the slot position j read.
ReplacerGetsWhatWasRead ==
    \A j \in Positions :
        (pc[j] = "located" /\ pc'[j] = "evaluated")
            => store[keys[j]] = old_value[j]

\* C35: when a batch names the same key at positions i < j, the primary
\* write of position i is applied before position j reads the key, so the
\* replacer of position j gets the document position i left, and the value
\* stored at the end is the one of the last position that names the key.
C35_SameKeyInSubmissionOrder ==
    []WritesInSubmissionOrder /\ [][ReplacerGetsWhatWasRead]_vars

\* A returned batch whose first two positions name the same key: the first
\* wrote a document, the second read it and replaced it by another, which
\* the key holds.
C35_Witness ==
    /\ coord.pc = "returned"
    /\ keys[1] = keys[2]
    /\ BatchLen = 2 \/ \A h \in 3..BatchLen : keys[h] # keys[1]
    /\ mod_report[1].added.first # NoDatum
    /\ old_value[2] = mod_report[1].added.second
    /\ mod_report[2].added.first # NoDatum
    /\ mod_report[2].added.second # old_value[2]
    /\ store[keys[2]] = mod_report[2].added.second

(***************************************************************************)
(* Termination of rdb_batched_replace.                                     *)
(***************************************************************************)

\* rdb_batched_replace has returned only if every coroutine has applied
\* its report and released its ticket, and the superblock is released.
ReturnsAfterAllTasks ==
    coord.pc = "returned" =>
        /\ \A i \in Positions : pc[i] = "done"
        /\ fifo_exited = BatchLen
        /\ Len(applied) = BatchLen
        /\ \A i \in Positions : \E n \in 1..Len(applied) : applied[n] = i
        /\ sindex_lock = 0

\* A coroutine waits only for coroutines submitted before it: the first
\* position that is under way finds its key, its ticket and the sindex
\* queue free.
WaitsOnlyForEarlier ==
    \A i \in Positions :
        (\A j \in 1..(i - 1) : pc[j] = "done") =>
            /\ pc[i] = "spawned" => superblock = [holder |-> "task", task |-> i]
            /\ pc[i] = "descending" => key_lock_free(i)
            /\ pc[i] = "evaluated" => fifo_exited = i - 1 /\ sindex_lock = 0

\* A coroutine that waits for its ticket holds no lock of a key: a later
\* coroutine for the same key is not kept from the leaf by it.
NoKeyLockWhileWaiting ==
    \A i \in Positions :
        (pc[i] = "evaluated" /\ fifo_exited # i - 1) =>
            \A j \in (i + 1)..BatchLen :
                (/\ keys[j] = keys[i]
                 /\ pc[j] = "descending"
                 /\ \A h \in 1..(j - 1) :
                        (h # i /\ keys[h] = keys[j])
                            => pc[h] \notin {"descending", "located"})
                    => key_lock_free(j)

\* C36: rdb_batched_replace terminates when every call of the replacer
\* returns or throws and the scheduler is fair: the wait for the ticket
\* and the hand-over of the superblock do not deadlock (a coroutine waits
\* only for coroutines submitted before it and holds no lock of a key
\* while it waits), and the function returns only after every coroutine
\* has applied its report and released its ticket.
C36_BatchTerminates ==
    /\ [](ReturnsAfterAllTasks /\ WaitsOnlyForEarlier /\ NoKeyLockWhileWaiting)
    /\ <>(coord.pc = "returned")

\* A batch has returned whose last position was the first to evaluate its
\* key and had to wait for its ticket: all positions are done, and the
\* reports were applied in submission order.
C36_Witness ==
    /\ coord.pc = "returned"
    /\ ~crashed
    /\ merge_order[1] = BatchLen
    /\ applied = [i \in Positions |-> i]
    /\ \A i \in Positions : pc[i] = "done"

(***************************************************************************)
(* rdb_erase_range and the documents it leaves or loses.                   *)
(***************************************************************************)

\* The entries of index x for the primary key k.
EntriesFor(x, k) ==
    {key \in SindexKeys :
        extract_primary(key) = k /\ sindex[x][key] # NoValue}

\* C37: rdb_erase_range removes index entries for exactly the primary keys
\* it removes from the primary tree: after an uninterrupted erase, with
\* any key tester, a document that is still in the primary tree (also one
\* whose key lies in the range and was rejected by the tester) has all of
\* its entries in every post-constructed index, and a removed document
\* has none.
C37_EntriesOfSurvivorsKept ==
    EraseCompleted =>
        \A x \in post_constructed : \A k \in StoreKeys :
            EntriesFor(x, k) =
                {key \in SindexKeys :
                    /\ extract_primary(key) = k
                    /\ IndexOf(store, x, mapping[x])[key] # NoValue}

LastPushed == sindex_queue[Len(sindex_queue)]

\* A coroutine of rdb_update_sindexes has not finished.
UpdateUnderWay == \E x \in Sindexes : update[x].pc \in {"spawned", "running"}

\* While rdb_update_sindexes runs for on_mod_report the mutex is held, and
\* the report it applies is the one pushed last.
LockHeldThroughUpdate ==
    (updating = "on_mod_report" \/ UpdateUnderWay) =>
        /\ sindex_lock # 0
        /\ sindex_queue # <<>>
        /\ report = [primary_key |-> LastPushed.primary_key,
                     info |-> LastPushed.info]

\* A report is pushed only with the mutex taken at that step and nothing
\* of an earlier report left to apply; an index changes only under the
\* mutex and for the report pushed last; the mutex is released only when
\* every index has been updated.
ReportsDoNotInterleave ==
    /\ sindex_queue' # sindex_queue =>
          /\ sindex_lock = 0
          /\ sindex_lock' # 0
          /\ updating = "none"
          /\ ~UpdateUnderWay
          /\ sindex_queue' = Append(sindex_queue, LastPushed')
    /\ sindex' # sindex =>
          /\ sindex_lock # 0
          /\ sindex_lock' = sindex_lock
          /\ sindex_queue' = sindex_queue
          /\ report' = report
    /\ (sindex_lock # 0 /\ sindex_lock' = 0) =>
          /\ ~UpdateUnderWay
          /\ updating' = "none"

\* C39: on_mod_report holds the mutex of the sindex queue from the push of
\* the report until rdb_update_sindexes has updated every index for it:
\* the updates of two reports do not interleave, and the reports are
\* applied to the indexes in the order in which they were pushed.
C39_QueueLockHeldThroughUpdate ==
    []LockHeldThroughUpdate /\ [][ReportsDoNotInterleave]_vars

\* The second report of the queue is being applied to both indexes, one
\* of which has already changed an entry for it, after the first report
\* was applied and the mutex released.
C39_Witness ==
    /\ Len(sindex_queue) = 2
    /\ updating = "on_mod_report"
    /\ sindex_lock # 0
    /\ post_constructed = Sindexes
    /\ \E x \in Sindexes : update[x].pc = "running" /\ update_log[x] # <<>>
    /\ \E x \in Sindexes : update[x].pc = "spawned"

====
